---- MODULE Spec2Model ----
(***************************************************************************)
(* Bot-Arena: the poker table engine (src/src/table/mod.rs), the players   *)
(* (src/src/player_components.rs) and the engine loop that feeds client    *)
(* input to the table (src/src/engine.rs, src/src/actions.rs).             *)
(*                                                                         *)
(* The table is one record `table` whose fields are the fields of the Rust *)
(* struct Table.  The methods of Table are operators from a table record   *)
(* to a table record, composed in the order of the statements of the code. *)
(* A Rust panic aborts the process: it is recorded in the field `panic`    *)
(* and every later statement is skipped.                                   *)
(*                                                                         *)
(* The cards are abstracted to what the engine uses of them: the order of  *)
(* the hands at a showdown (get_hand_result), an input of take_action      *)
(* drawn from all weak orders of the seats that reach the showdown.        *)
(*                                                                         *)
(* `before` and `call` are history variables: the table before the last    *)
(* operation and the operation with its inputs.                            *)
(*                                                                         *)
(* `cfg` fixes what a behaviour explores: the starting stack, the hand at  *)
(* which exploration stops, whether round_actions is kept (the log grows   *)
(* with every action, so the general specifications leave it out), the     *)
(* actions offered to take_action and the orders of the hands.             *)
(***************************************************************************)
EXTENDS Integers, Sequences, FiniteSets, TLC

VARIABLES table, before, call, cfg

vars == <<table, before, call, cfg>>

(***************************************************************************)
(* Bounds of the model                                                     *)
(***************************************************************************)
\* the chips each player starts with, scaled down from DEFAULT_START_MONEY
StartMoney == 2
\* a table of more than two seats is explored until this hand is dealt
MaxHand == 3
\* a table of two seats is explored until this hand is dealt
MaxHandDuel == 9
\* the seats of the wide table
WideSeats == 4
\* the table explored with round_actions kept, until hand LogHands is dealt
LogSeats == 3
LogHands == 2
\* the table whose stacks outlast the pot limit of the first raises
PotLimitSeats == 3
PotLimitMoney == 8
PotLimitHands == 2
\* two_sets_of_ties is explored until this hand is dealt
SidePotHands == 2
\* the connections of the engine, explored until hand EngineHands is dealt
EngineSeats == 2
EngineHands == 2
\* the duel with a silent client is explored until this hand is dealt
SilentHands == 80


\* the clients that may connect during the acceptance window, and the
\* hands their table plays
RosterClients == 24
RosterHands == 2

\* the largest stack of the player whose methods are called one by one
PlayerMoney == 4

\* the hands of the table on which any amount may be raised, and the chips
\* a seat or a bet may hold for the play to go on
RaiseHands == 2
RaiseCap == 6

\* the seats and the hands of the table whose streams are followed
StreamSeats == 2
StreamHands == 4

\* the hands of the table whose log is followed from one hand into the next
LongLogHands == 3

\* the hands played on the tables of every size
NewHands == 2

\* the hands played with the cards in the state, and the cuts of the deck
CardHands == 3

DeckCuts == {0, 7, 20}
\* the tables of the general specifications
SmallTables == {2, 3}

(***************************************************************************)
(* Program constants                                                       *)
(***************************************************************************)
DEFAULT_START_MONEY == 500
ANTE_INCREASE_AMOUNT == 1
MAX_TABLE_PLAYERS == 23
\* the bot total validate_bot_args refuses (args.rs)
BOT_LIMIT == 23
SidePotSeats == 6

None == 0
NoPanic == "none"

(***************************************************************************)
(* Arithmetic of i32                                                       *)
(***************************************************************************)
I32_MAX == 2147483647

\* a + b and a - b on i32 where the sum wraps around (a release build)
wrapping_add(a, b) ==
    IF b > 0 /\ a > I32_MAX - b THEN (a - I32_MAX - 1) + (b - I32_MAX - 1)
    ELSE IF b < 0 /\ a < (-I32_MAX - 1) - b THEN (a + I32_MAX + 1) + (b + I32_MAX + 1)
    ELSE a + b

wrapping_sub(a, b) ==
    IF b < 0 /\ a > I32_MAX + b THEN (a - I32_MAX - 1) - (b + I32_MAX + 1)
    ELSE IF b > 0 /\ a < (-I32_MAX - 1) + b THEN (a + I32_MAX + 1) - (b - I32_MAX - 1)
    ELSE a - b

Min(a, b) == IF a <= b THEN a ELSE b

Abs(a) == IF a < 0 THEN -a ELSE a

\* Rust's / and % on i32 truncate towards zero
TruncDiv(a, b) ==
    LET q == Abs(a) \div Abs(b)
    IN IF (a < 0) = (b < 0) THEN q ELSE -q

TruncRem(a, b) == a - b * TruncDiv(a, b)

RECURSIVE SumOver(_, _)
SumOver(f, S) ==
    IF S = {} THEN 0
    ELSE LET s == CHOOSE x \in S : TRUE
         IN f[s] + SumOver(f, S \ {s})

Sum(f) == SumOver(f, DOMAIN f)

(***************************************************************************)
(* HandAction (actions.rs) and TableAction (table/table_action.rs)         *)
(***************************************************************************)
Fold == [kind |-> "Fold"]
Check == [kind |-> "Check"]
Call == [kind |-> "Call"]
Raise(n) == [kind |-> "Raise", amount |-> n]

TakePlayerAction(id, hand_action) ==
    [type |-> "TakePlayerAction", player |-> id, action |-> hand_action]
DealCards(round_number, dealer) ==
    [type |-> "DealCards", round_number |-> round_number,
     dealer_button_index |-> dealer]
AdvanceToFlop == [type |-> "AdvanceToFlop"]
AdvanceToTurn == [type |-> "AdvanceToTurn"]
AdvanceToRiver == [type |-> "AdvanceToRiver"]
\* the result string names the winner (everyone else folded) or the rank of
\* every Active player (hands compared)
EvaluateHand(result) == [type |-> "EvaluateHand", result |-> result]

(***************************************************************************)
(* BetStage (bet_stage.rs)                                                 *)
(***************************************************************************)
\* next_stage if the match skipped the Flop
next_stage_skips_flop(stage) ==
    CASE stage = "PreFlop" -> "Turn"
      [] stage = "Flop" -> "Turn"
      [] stage = "Turn" -> "River"
      [] stage = "River" -> "PreFlop"

next_stage(stage) ==
    CASE stage = "PreFlop" -> "Flop"
      [] stage = "Flop" -> "Turn"
      [] stage = "Turn" -> "River"
      [] stage = "River" -> "PreFlop"

(***************************************************************************)
(* Player (player_components.rs).  A Folded player has no ActiveState; its *)
(* current_bet is kept at 0.                                               *)
(***************************************************************************)
Player_new(id, money) ==
    [id |-> id, player_state |-> "Folded", current_bet |-> 0,
     total_money |-> money, death_hand_number |-> None,
     has_had_turn_this_round |-> FALSE]

is_active(p) == p.player_state = "Active"

is_alive(p) == p.death_hand_number = None

Player_deal(p) ==
    [p EXCEPT !.player_state = "Active", !.current_bet = 0,
              !.has_had_turn_this_round = FALSE]

\* fold and bet give the player, the amount moved and whether they panicked
Player_fold(p) ==
    IF is_active(p)
    THEN [player |-> [p EXCEPT !.has_had_turn_this_round = TRUE,
                               !.player_state = "Folded", !.current_bet = 0],
          amount |-> 0, panic |-> NoPanic]
    ELSE [player |-> [p EXCEPT !.has_had_turn_this_round = TRUE],
          amount |-> 0, panic |-> "Folded on an inactive player!"]

\* bet if it did not count as the turn of the player
Player_bet_turn_not_marked(p, bet) ==
    IF is_active(p)
    THEN IF bet >= p.total_money
         THEN [player |-> [p EXCEPT !.current_bet = wrapping_add(@, p.total_money),
                                    !.total_money = 0],
               amount |-> p.total_money, panic |-> NoPanic]
         ELSE [player |-> [p EXCEPT !.current_bet = wrapping_add(@, bet),
                                    !.total_money = wrapping_sub(@, bet)],
               amount |-> bet, panic |-> NoPanic]
    ELSE [player |-> p,
          amount |-> 0, panic |-> "Betting in a non-active state is illegal!"]

\* bet if a bet above the stack were taken as it is and not as an all-in
Player_bet_no_all_in(p, bet) ==
    IF is_active(p)
    THEN [player |-> [p EXCEPT !.has_had_turn_this_round = TRUE,
                               !.current_bet = wrapping_add(@, bet),
                               !.total_money = wrapping_sub(@, bet)],
          amount |-> bet, panic |-> NoPanic]
    ELSE [player |-> [p EXCEPT !.has_had_turn_this_round = TRUE],
          amount |-> 0, panic |-> "Betting in a non-active state is illegal!"]

Player_bet(p, bet) ==
    IF is_active(p)
    THEN IF bet >= p.total_money
         THEN [player |-> [p EXCEPT !.has_had_turn_this_round = TRUE,
                                    !.current_bet = wrapping_add(@, p.total_money),
                                    !.total_money = 0],
               amount |-> p.total_money, panic |-> NoPanic]
         ELSE [player |-> [p EXCEPT !.has_had_turn_this_round = TRUE,
                                    !.current_bet = wrapping_add(@, bet),
                                    !.total_money = wrapping_sub(@, bet)],
               amount |-> bet, panic |-> NoPanic]
    ELSE [player |-> [p EXCEPT !.has_had_turn_this_round = TRUE],
          amount |-> 0, panic |-> "Betting in a non-active state is illegal!"]

(***************************************************************************)
(* Table (table/mod.rs): queries                                           *)
(***************************************************************************)
Seats(t) == DOMAIN t.players

get_player_count(t) == Cardinality(Seats(t))

get_current_player(t) == t.players[t.current_player_index]

get_pot_size(t) == Sum(t.player_bets)

AliveSeats(t) == {i \in Seats(t) : is_alive(t.players[i])}

ActiveSeats(t) == {i \in Seats(t) : is_active(t.players[i])}

is_game_over(t) == Cardinality(AliveSeats(t)) = 1

get_active_player_count(t) == Cardinality(ActiveSeats(t))

Max(S) == CHOOSE x \in S : \A y \in S : y <= x

get_largest_active_bet(t) ==
    Max({IF is_active(t.players[i]) THEN t.players[i].current_bet ELSE 0 :
         i \in Seats(t)})

\* check_all_players_ready_for_next_round if an all-in seat had to take a
\* turn in every stage like the others
check_all_players_ready_had_turn(t) ==
    \A i \in Seats(t) :
        is_active(t.players[i]) => t.players[i].has_had_turn_this_round

check_all_players_ready_for_next_round(t) ==
    \A i \in Seats(t) :
        is_active(t.players[i]) =>
            (t.players[i].has_had_turn_this_round \/ t.players[i].total_money = 0)

\* check_all_active_players_same_bet if the all-in seats had to match too
check_all_active_players_same_bet_strict(t) ==
    LET max_bet == get_largest_active_bet(t)
    IN \A i \in Seats(t) :
           is_active(t.players[i]) => t.players[i].current_bet = max_bet

check_all_active_players_same_bet(t) ==
    LET max_bet == get_largest_active_bet(t)
    IN \A i \in Seats(t) :
           is_active(t.players[i]) =>
               (t.players[i].total_money = 0 \/ t.players[i].current_bet = max_bet)

is_betting_over(t) ==
    check_all_players_ready_for_next_round(t) /\ check_all_active_players_same_bet(t)

(***************************************************************************)
(* Table: the log                                                          *)
(***************************************************************************)
push_action(t, entry) ==
    IF t.panic # NoPanic \/ ~cfg.log THEN t
    ELSE [t EXCEPT !.round_actions = Append(@, entry)]

with_panic(t, message) ==
    IF t.panic # NoPanic THEN t ELSE [t EXCEPT !.panic = message]

(***************************************************************************)
(* Table: the turn walk                                                    *)
(***************************************************************************)
NextIndex(t, index) == IF index + 1 >= get_player_count(t) THEN 0 ELSE index + 1

\* the loop of update_current_player_index_to_next_active with `left`
\* iterations to go
RECURSIVE WalkToNextActive(_, _, _)
WalkToNextActive(t, index, left) ==
    IF left = 0 THEN index
    ELSE LET next == NextIndex(t, index)
         IN IF t.players[next].total_money = 0
            THEN WalkToNextActive(t, next, left - 1)
            ELSE IF is_active(t.players[next]) THEN next
                 ELSE WalkToNextActive(t, next, left - 1)

update_current_player_index_to_next_active(t) ==
    IF t.panic # NoPanic THEN t
    ELSE LET index == WalkToNextActive(t, t.current_player_index, get_player_count(t))
             t1 == [t EXCEPT !.current_player_index = index]
         IN IF ~is_alive(t1.players[index])
            THEN with_panic(t1, "Current player not alive after update!")
            ELSE IF ~is_active(t1.players[index])
                 THEN with_panic(t1, "Current player not active after update")
                 ELSE t1

\* the loop of find_next_deal_button_index_and_update_current_player
RECURSIVE WalkToNextAlive(_, _, _)
WalkToNextAlive(t, index, left) ==
    IF left = 0 THEN index
    ELSE LET next == NextIndex(t, index)
         IN IF is_alive(t.players[next]) THEN next
            ELSE WalkToNextAlive(t, next, left - 1)

\* find_next_deal_button_index_and_update_current_player if the button
\* moved one seat on whether or not that seat is alive
find_next_deal_button_index_dead_or_alive(t) ==
    LET button == NextIndex(t, t.dealer_button_index)
    IN update_current_player_index_to_next_active(
           [t EXCEPT !.dealer_button_index = button,
                     !.current_player_index = button])

find_next_deal_button_index_and_update_current_player(t) ==
    LET button == WalkToNextAlive(t, t.dealer_button_index, get_player_count(t))
    IN update_current_player_index_to_next_active(
           [t EXCEPT !.dealer_button_index = button,
                     !.current_player_index = button])

(***************************************************************************)
(* Table: deal                                                             *)
(***************************************************************************)
\* reset_state_for_new_round if the log of the round were dropped and not
\* saved as the previous round
reset_state_for_new_round_log_dropped(t) ==
    [t EXCEPT !.table_state = "PreFlop",
              !.player_bets = [i \in Seats(t) |-> 0],
              !.round_actions =
                  IF cfg.log THEN <<DealCards(t.hand_number, t.dealer_button_index)>>
                  ELSE <<>>]

reset_state_for_new_round(t) ==
    [t EXCEPT !.table_state = "PreFlop",
              !.player_bets = [i \in Seats(t) |-> 0],
              !.previous_round_actions = t.round_actions,
              !.round_actions =
                  IF cfg.log THEN <<DealCards(t.hand_number, t.dealer_button_index)>>
                  ELSE <<>>]

\* check_for_player_death if a seat already dead were marked again
check_for_player_death_marks_again(t) ==
    [t EXCEPT !.players =
        [i \in Seats(t) |->
            IF t.players[i].total_money < t.ante
            THEN [t.players[i] EXCEPT !.death_hand_number = t.hand_number]
            ELSE t.players[i]]]

\* check_for_player_death if only a negative stack counted as broke
check_for_player_death_negative_only(t) ==
    [t EXCEPT !.players =
        [i \in Seats(t) |->
            IF t.players[i].death_hand_number = None
               /\ t.players[i].total_money < 0
            THEN [t.players[i] EXCEPT !.death_hand_number = t.hand_number]
            ELSE t.players[i]]]

\* check_for_player_death if a stack equal to the ante counted as broke
check_for_player_death_at_the_ante(t) ==
    [t EXCEPT !.players =
        [i \in Seats(t) |->
            IF t.players[i].death_hand_number = None
               /\ t.players[i].total_money <= t.ante
            THEN [t.players[i] EXCEPT !.death_hand_number = t.hand_number]
            ELSE t.players[i]]]

check_for_player_death(t) ==
    [t EXCEPT !.players =
        [i \in Seats(t) |->
            IF t.players[i].death_hand_number = None
               /\ t.players[i].total_money < t.ante
            THEN [t.players[i] EXCEPT !.death_hand_number = t.hand_number]
            ELSE t.players[i]]]

\* one seat of the loop of deal_player_cards_collect_ante
AnteOf(t, i) ==
    IF is_alive(t.players[i])
    THEN LET paid == Player_bet(Player_deal(t.players[i]), t.ante)
         IN [player |-> [paid.player EXCEPT !.has_had_turn_this_round = FALSE],
             amount |-> paid.amount]
    ELSE [player |-> [t.players[i] EXCEPT !.player_state = "Folded",
                                          !.current_bet = 0],
          amount |-> 0]

deal_player_cards_collect_ante(t) ==
    [t EXCEPT !.players = [i \in Seats(t) |-> AnteOf(t, i).player],
              !.player_bets = [i \in Seats(t) |-> @[i] + AnteOf(t, i).amount]]

\* deal if it left hand_number alone
deal_hand_number_kept(t) ==
    IF t.panic # NoPanic \/ is_game_over(t) THEN t
    ELSE LET t2 == reset_state_for_new_round(t)
             t3 == check_for_player_death(t2)
             t4 == deal_player_cards_collect_ante(t3)
             t5 == find_next_deal_button_index_and_update_current_player(t4)
         IN IF t5.panic # NoPanic THEN t5
            ELSE IF t5.hand_number % t5.ante_round_increase = 0
                 THEN [t5 EXCEPT !.ante = @ + ANTE_INCREASE_AMOUNT]
                 ELSE t5

\* deal if the ante rose one hand late
deal_ante_one_hand_late(t) ==
    IF t.panic # NoPanic \/ is_game_over(t) THEN t
    ELSE LET t1 == [t EXCEPT !.hand_number = @ + 1]
             t2 == reset_state_for_new_round(t1)
             t3 == check_for_player_death(t2)
             t4 == deal_player_cards_collect_ante(t3)
             t5 == find_next_deal_button_index_and_update_current_player(t4)
         IN IF t5.panic # NoPanic THEN t5
            ELSE IF t5.hand_number % t5.ante_round_increase = 1
                 THEN [t5 EXCEPT !.ante = @ + ANTE_INCREASE_AMOUNT]
                 ELSE t5

deal(t) ==
    IF t.panic # NoPanic \/ is_game_over(t) THEN t
    ELSE LET t1 == [t EXCEPT !.hand_number = @ + 1]
             t2 == reset_state_for_new_round(t1)
             t3 == check_for_player_death(t2)
             t4 == deal_player_cards_collect_ante(t3)
             t5 == find_next_deal_button_index_and_update_current_player(t4)
         IN IF t5.panic # NoPanic THEN t5
            ELSE IF t5.hand_number % t5.ante_round_increase = 0
                 THEN [t5 EXCEPT !.ante = @ + ANTE_INCREASE_AMOUNT]
                 ELSE t5

\* Table::new if the button started on seat 0 instead of the last seat
Table_new_button_at_zero(number_of_players, money) ==
    LET fresh == [players |-> [i \in 0 .. number_of_players - 1 |-> Player_new(i, money)],
                  dealer_button_index |-> 0,
                  ante |-> 1,
                  hand_number |-> 0,
                  current_player_index |-> 0,
                  table_state |-> "PreFlop",
                  player_bets |-> [i \in 0 .. number_of_players - 1 |-> 0],
                  ante_round_increase |-> number_of_players * 2,
                  round_actions |-> <<>>,
                  previous_round_actions |-> <<>>,
                  panic |-> NoPanic]
    IN IF number_of_players > MAX_TABLE_PLAYERS
       THEN with_panic(fresh, "Too many players for one table!")
       ELSE deal(fresh)

Table_new(number_of_players, money) ==
    LET fresh == [players |-> [i \in 0 .. number_of_players - 1 |-> Player_new(i, money)],
                  dealer_button_index |-> number_of_players - 1,
                  ante |-> 1,
                  hand_number |-> 0,
                  current_player_index |-> number_of_players - 1,
                  table_state |-> "PreFlop",
                  player_bets |-> [i \in 0 .. number_of_players - 1 |-> 0],
                  ante_round_increase |-> number_of_players * 2,
                  round_actions |-> <<>>,
                  previous_round_actions |-> <<>>,
                  panic |-> NoPanic]
    IN IF number_of_players > MAX_TABLE_PLAYERS
       THEN with_panic(fresh, "Too many players for one table!")
       ELSE deal(fresh)

(***************************************************************************)
(* Table: one player's action                                              *)
(***************************************************************************)
\* acceptable_bet if the raise were not held to the pot limit
acceptable_bet_unclamped(raise_amount, difference, pot_size) ==
    wrapping_add(raise_amount, difference)

\* the pot limit on a raise: the pot plus the amount required to call
acceptable_bet(raise_amount, difference, pot_size) ==
    Min(wrapping_add(raise_amount, difference), wrapping_add(pot_size, difference))

\* take_provided_action if a raise were logged with the amount asked for
take_provided_action_logs_request(t, hand_action) ==
    LET index == t.current_player_index
        player == t.players[index]
        difference == wrapping_sub(get_largest_active_bet(t), player.current_bet)
        folded == Player_fold(player)
        checked == Player_bet(player, 0)
        called == Player_bet(player, difference)
        raised == Player_bet(player,
                             acceptable_bet(hand_action.amount, difference,
                                            get_pot_size(t)))
        Applied(done, counted, logged) ==
            push_action(
                with_panic([t EXCEPT !.players[index] = done.player,
                                     !.player_bets[index] =
                                         IF counted /\ done.panic = NoPanic
                                         THEN wrapping_add(@, done.amount) ELSE @],
                           done.panic),
                TakePlayerAction(player.id, logged))
    IN CASE hand_action.kind = "Fold" -> Applied(folded, FALSE, Fold)
         [] hand_action.kind = "Check" ->
                IF difference = 0 THEN Applied(checked, FALSE, Check)
                ELSE Applied(folded, FALSE, Fold)
         [] hand_action.kind = "Call" -> Applied(called, TRUE, Call)
         [] hand_action.kind = "Raise" -> Applied(raised, TRUE, hand_action)

\* take_provided_action if a Check into a bet were taken as a legal check
take_provided_action_check_stays(t, hand_action) ==
    LET index == t.current_player_index
        player == t.players[index]
        difference == wrapping_sub(get_largest_active_bet(t), player.current_bet)
        folded == Player_fold(player)
        checked == Player_bet(player, 0)
        called == Player_bet(player, difference)
        raised == Player_bet(player,
                             acceptable_bet(hand_action.amount, difference,
                                            get_pot_size(t)))
        \* the player after the call to fold or bet, the chips added to
        \* player_bets and the entry pushed to round_actions
        Applied(done, counted, logged) ==
            push_action(
                with_panic([t EXCEPT !.players[index] = done.player,
                                     !.player_bets[index] =
                                         IF counted /\ done.panic = NoPanic
                                         THEN wrapping_add(@, done.amount) ELSE @],
                           done.panic),
                TakePlayerAction(player.id, logged))
    IN CASE hand_action.kind = "Fold" -> Applied(folded, FALSE, Fold)
         [] hand_action.kind = "Check" ->
                IF difference = 0 THEN Applied(checked, FALSE, Check)
                ELSE Applied(checked, FALSE, Check)
         [] hand_action.kind = "Call" -> Applied(called, TRUE, Call)
         [] hand_action.kind = "Raise" -> Applied(raised, TRUE, Raise(raised.amount))

take_provided_action(t, hand_action) ==
    LET index == t.current_player_index
        player == t.players[index]
        difference == wrapping_sub(get_largest_active_bet(t), player.current_bet)
        folded == Player_fold(player)
        checked == Player_bet(player, 0)
        called == Player_bet(player, difference)
        raised == Player_bet(player,
                             acceptable_bet(hand_action.amount, difference,
                                            get_pot_size(t)))
        \* the player after the call to fold or bet, the chips added to
        \* player_bets and the entry pushed to round_actions
        Applied(done, counted, logged) ==
            push_action(
                with_panic([t EXCEPT !.players[index] = done.player,
                                     !.player_bets[index] =
                                         IF counted /\ done.panic = NoPanic
                                         THEN wrapping_add(@, done.amount) ELSE @],
                           done.panic),
                TakePlayerAction(player.id, logged))
    IN CASE hand_action.kind = "Fold" -> Applied(folded, FALSE, Fold)
         [] hand_action.kind = "Check" ->
                IF difference = 0 THEN Applied(checked, FALSE, Check)
                ELSE Applied(folded, FALSE, Fold)
         [] hand_action.kind = "Call" -> Applied(called, TRUE, Call)
         [] hand_action.kind = "Raise" -> Applied(raised, TRUE, Raise(raised.amount))

(***************************************************************************)
(* Table: showdown                                                         *)
(***************************************************************************)
\* the seats of S as a sequence, by ascending key and then by seat: what a
\* stable sort makes of the seats taken in seat order
RECURSIVE SortedBy(_, _)
SortedBy(S, key) ==
    IF S = {} THEN <<>>
    ELSE LET m == CHOOSE x \in S :
                      \A y \in S : key[x] < key[y] \/ (key[x] = key[y] /\ x <= y)
         IN <<m>> \o SortedBy(S \ {m}, key)

\* the classes of equal hands, best first; the Folded players compare
\* greater than every Active player and equal to each other
get_hand_result(t, ranking) ==
    LET active == ActiveSeats(t)
        folded == Seats(t) \ active
        ranks == {ranking[s] : s \in active}
        seat == [s \in Seats(t) |-> s]
        classes == [r \in 1 .. Cardinality(ranks) |->
                       SortedBy({s \in active : ranking[s] = r}, seat)]
    IN IF folded = {} THEN classes
       ELSE IF active = {} THEN <<SortedBy(folded, seat)>>
            ELSE Append(classes, SortedBy(folded, seat))

\* sort_by(compare_players_by_bet_amount) and then the filter on Active
SortedActiveByBet(t, class) ==
    LET members == {class[k] : k \in 1 .. Len(class)}
    IN SortedBy({s \in members : is_active(t.players[s])},
                [s \in Seats(t) |-> t.players[s].current_bet])

get_bet_increases_amount(t, list) ==
    [k \in 1 .. Len(list) |->
        t.players[list[k]].current_bet
            - (IF k = 1 THEN 0 ELSE t.players[list[k - 1]].current_bet)]

\* PayIncrement if an increment took every bet whole
PayIncrement_whole_bets(t, list, bet_amount, i) ==
    LET side_pot_amount == [s \in Seats(t) |-> t.player_bets[s]]
        total == Sum(side_pot_amount)
        player_size == Len(list) - i
        each_player_payout == TruncDiv(total, player_size)
        remainder == TruncRem(total, player_size)
        payout == [s \in Seats(t) |->
                      IF \E j \in i .. Len(list) - 1 : list[j + 1] = s
                      THEN LET j == CHOOSE j \in i .. Len(list) - 1 : list[j + 1] = s
                           IN each_player_payout + (IF j < remainder THEN 1 ELSE 0)
                      ELSE 0]
    IN [t EXCEPT !.player_bets = [s \in Seats(t) |-> @[s] - side_pot_amount[s]],
                 !.players = [s \in Seats(t) |->
                                 [t.players[s] EXCEPT !.total_money = @ + payout[s]]]]

\* the body of the loop over bet_amounts, for the increment at position i
\* (positions count from 0 as in the code)
PayIncrement(t, list, bet_amount, i) ==
    LET side_pot_amount == [s \in Seats(t) |-> Min(bet_amount, t.player_bets[s])]
        total == Sum(side_pot_amount)
        player_size == Len(list) - i
        each_player_payout == TruncDiv(total, player_size)
        remainder == TruncRem(total, player_size)
        payout == [s \in Seats(t) |->
                      IF \E j \in i .. Len(list) - 1 : list[j + 1] = s
                      THEN LET j == CHOOSE j \in i .. Len(list) - 1 : list[j + 1] = s
                           IN each_player_payout + (IF j < remainder THEN 1 ELSE 0)
                      ELSE 0]
    IN [t EXCEPT !.player_bets = [s \in Seats(t) |-> @[s] - side_pot_amount[s]],
                 !.players = [s \in Seats(t) |->
                                 [t.players[s] EXCEPT !.total_money = @ + payout[s]]]]

RECURSIVE PayIncrements(_, _, _, _)
PayIncrements(t, list, bet_amounts, i) ==
    IF i >= Len(list) \/ get_pot_size(t) = 0 THEN t
    ELSE PayIncrements(PayIncrement(t, list, bet_amounts[i + 1], i),
                       list, bet_amounts, i + 1)

\* the loop over sorted_players, from class c on
RECURSIVE PayClasses(_, _, _)
PayClasses(t, classes, c) ==
    IF c > Len(classes) THEN t
    ELSE LET list == SortedActiveByBet(t, classes[c])
         IN PayClasses(PayIncrements(t, list, get_bet_increases_amount(t, list), 0),
                       classes, c + 1)

\* resolve_hand if the last Active player were paid the other seats' bets only
resolve_hand_others_only(t, ranking) ==
    IF t.panic # NoPanic THEN t
    ELSE IF get_active_player_count(t) = 1
         THEN LET winner == CHOOSE s \in ActiveSeats(t) : \A o \in ActiveSeats(t) : s <= o
              IN deal(push_action(
                     [t EXCEPT !.players[winner].total_money =
                                   @ + get_pot_size(t) - t.player_bets[winner]],
                     EvaluateHand([reason |-> "folded", winner |-> winner])))
         ELSE deal(push_action(
                  PayClasses(t, get_hand_result(t, ranking), 1),
                  EvaluateHand([reason |-> "compared", ranks |-> ranking])))

resolve_hand(t, ranking) ==
    IF t.panic # NoPanic THEN t
    ELSE IF get_active_player_count(t) = 1
         THEN LET winner == CHOOSE s \in ActiveSeats(t) : \A o \in ActiveSeats(t) : s <= o
              IN deal(push_action(
                     [t EXCEPT !.players[winner].total_money = @ + get_pot_size(t)],
                     EvaluateHand([reason |-> "folded", winner |-> winner])))
         ELSE deal(push_action(
                  PayClasses(t, get_hand_result(t, ranking), 1),
                  EvaluateHand([reason |-> "compared", ranks |-> ranking])))

(***************************************************************************)
(* Table: take_action                                                      *)
(***************************************************************************)
AdvanceTo(stage) ==
    CASE stage = "PreFlop" -> AdvanceToFlop
      [] stage = "Flop" -> AdvanceToTurn
      [] OTHER -> AdvanceToRiver

\* the while loop of take_action: the table when the loop is left, and
\* whether it is left for the showdown
RECURSIVE close_betting(_)
close_betting(t) ==
    IF is_betting_over(t) /\ ~is_game_over(t)
    THEN IF t.table_state = "River" THEN [table |-> t, showdown |-> TRUE]
         ELSE close_betting(
                  [push_action(t, AdvanceTo(t.table_state)) EXCEPT
                      !.table_state = next_stage(@),
                      !.current_player_index = t.dealer_button_index,
                      !.players = [i \in Seats(t) |->
                          [t.players[i] EXCEPT !.has_had_turn_this_round = FALSE]]])
    ELSE [table |-> t, showdown |-> FALSE]

\* take_action if it did not return early once the game is over
take_action_unguarded(t, hand_action, ranking) ==
    IF t.panic # NoPanic THEN t
    ELSE IF ~is_active(get_current_player(t))
         THEN with_panic(t, "Tried to take an action on an inactive player")
         ELSE LET t1 == take_provided_action(t, hand_action)
                  loop == close_betting(t1)
              IN IF t1.panic # NoPanic THEN t1
                 ELSE IF get_active_player_count(t1) = 1 THEN resolve_hand(t1, ranking)
                 ELSE IF loop.showdown THEN resolve_hand(loop.table, ranking)
                 ELSE update_current_player_index_to_next_active(loop.table)

take_action(t, hand_action, ranking) ==
    IF t.panic # NoPanic \/ is_game_over(t) THEN t
    ELSE IF ~is_active(get_current_player(t))
         THEN with_panic(t, "Tried to take an action on an inactive player")
         ELSE LET t1 == take_provided_action(t, hand_action)
                  loop == close_betting(t1)
              IN IF t1.panic # NoPanic THEN t1
                 ELSE IF get_active_player_count(t1) = 1 THEN resolve_hand(t1, ranking)
                 ELSE IF loop.showdown THEN resolve_hand(loop.table, ranking)
                 ELSE update_current_player_index_to_next_active(loop.table)

\* the seats whose hands the evaluator compares if hand_action is taken
ShowdownSeats(t, hand_action) ==
    IF t.panic # NoPanic \/ is_game_over(t) \/ ~is_active(get_current_player(t))
    THEN {}
    ELSE LET t1 == take_provided_action(t, hand_action)
             loop == close_betting(t1)
         IN IF t1.panic = NoPanic /\ get_active_player_count(t1) # 1 /\ loop.showdown
            THEN ActiveSeats(loop.table) ELSE {}

\* the orders the evaluator can give the hands of the seats S: rank 1 is
\* the best hand, equal ranks are equal hands
WeakOrders(S) ==
    {f \in [S -> 1 .. Cardinality(S)] :
        \A r \in 1 .. Cardinality(S) :
            (\E s \in S : f[s] = r) => \A q \in 1 .. r : \E s \in S : f[s] = q}

(***************************************************************************)
(* Table::get_results and the order of the players (Ord for Player)        *)
(***************************************************************************)
\* Player::cmp: -1 for Less, 0 for Equal, 1 for Greater
Player_cmp(a, b) ==
    LET compare(x, y) == IF x < y THEN -1 ELSE IF x = y THEN 0 ELSE 1
    IN IF is_alive(a) /\ is_alive(b) THEN compare(a.total_money, b.total_money)
       ELSE IF is_alive(a) THEN 1
       ELSE IF b.death_hand_number = None THEN -1
       ELSE compare(a.death_hand_number, b.death_hand_number)

\* Player::eq
Player_eq(a, b) == a.death_hand_number = b.death_hand_number

\* sort_by(|a, b| b.cmp(a)): the seats S from the greatest player down, the
\* seats of equal players in seat order
RECURSIVE SortedDescending(_, _)
SortedDescending(t, S) ==
    IF S = {} THEN <<>>
    ELSE LET m == CHOOSE x \in S :
                      \A y \in S :
                          \/ Player_cmp(t.players[x], t.players[y]) > 0
                          \/ /\ Player_cmp(t.players[x], t.players[y]) = 0
                             /\ x <= y
         IN <<m>> \o SortedDescending(t, S \ {m})

\* the rank of the player at position k of the sorted players
RECURSIVE RankAt(_, _, _)
RankAt(t, sorted, k) ==
    IF k = 1 THEN 1
    ELSE IF ~Player_eq(t.players[sorted[k]], t.players[sorted[k - 1]]) THEN k
         ELSE RankAt(t, sorted, k - 1)

\* the lines of the result string: rank, death round and player
get_results(t) ==
    LET sorted == SortedDescending(t, Seats(t))
    IN [k \in 1 .. Len(sorted) |->
           [rank |-> RankAt(t, sorted, k),
            death_round |-> t.players[sorted[k]].death_hand_number,
            player |-> sorted[k]]]

(***************************************************************************)
(* HandAction::parse_hand_action (actions.rs) and Engine::get_client_input *)
(* (engine.rs).  A text frame is what serde_json makes of it: whether it   *)
(* is JSON at all, the value of "action" and the value of "amount".        *)
(***************************************************************************)
Absent == [type |-> "absent"]
JsonString(text) == [type |-> "string", text |-> text]
JsonInteger(n) == [type |-> "integer", value |-> n]
JsonFloat(text) == [type |-> "float", text |-> text]

Frame(action, amount) == [json |-> TRUE, action |-> action, amount |-> amount]
NotJson == [json |-> FALSE]

\* to_lowercase if the tag were matched as the client wrote it
to_lowercase_left_out(text) == text

to_lowercase(text) ==
    CASE text \in {"fold", "FOLD", "Fold"} -> "fold"
      [] text \in {"check", "CHECK", "Check"} -> "check"
      [] text \in {"call", "CALL", "Call"} -> "call"
      [] text \in {"raise", "RAISE", "Raise"} -> "raise"
      [] OTHER -> text

\* the Result of parse_hand_action: ok with the action, or an error
ParseOk(hand_action) == [ok |-> TRUE, action |-> hand_action]
ParseErr(message) == [ok |-> FALSE, error |-> message]

parse_hand_action(frame) ==
    IF ~frame.json THEN ParseErr("not json")
    ELSE LET tag == to_lowercase(IF frame.action.type = "string"
                                 THEN frame.action.text ELSE "bad")
         IN CASE tag = "fold" -> ParseOk(Fold)
              [] tag = "call" -> ParseOk(Call)
              [] tag = "check" -> ParseOk(Check)
              [] tag = "raise" ->
                     IF frame.amount.type = "integer"
                     THEN ParseOk(Raise(frame.amount.value))
                     ELSE ParseErr("Invalid amount")
              [] OTHER -> ParseErr("Invalid action")

\* Display for HandAction, read back by serde_json: the object with the
\* tag of the action and, for a raise, its amount
emit(hand_action) ==
    CASE hand_action.kind = "Fold" -> Frame(JsonString("fold"), Absent)
      [] hand_action.kind = "Call" -> Frame(JsonString("call"), Absent)
      [] hand_action.kind = "Check" -> Frame(JsonString("check"), Absent)
      [] hand_action.kind = "Raise" ->
             Frame(JsonString("raise"), JsonInteger(hand_action.amount))

\* what the transport does on one turn: the lookup of the connection, the
\* send of the state message and the read of the reply under the deadline
Exchange(connection, send, read, frame) ==
    [connection |-> connection, send |-> send, read |-> read, frame |-> frame]

\* get_client_input if an expired read deadline were answered with Check
get_client_input_timeout_checks(exchange) ==
    IF ~exchange.connection THEN Fold
    ELSE IF exchange.send = "error" THEN Fold
    ELSE CASE exchange.read = "timeout" -> Check
           [] exchange.read = "closed" -> Fold
           [] exchange.read = "error" -> Fold
           [] exchange.read = "message" ->
                  LET parsed == parse_hand_action(exchange.frame)
                  IN IF parsed.ok THEN parsed.action ELSE Fold

get_client_input(exchange) ==
    IF ~exchange.connection THEN Fold
    ELSE IF exchange.send = "error" THEN Fold
    ELSE CASE exchange.read = "timeout" -> Fold
           [] exchange.read = "closed" -> Fold
           [] exchange.read = "error" -> Fold
           [] exchange.read = "message" ->
                  LET parsed == parse_hand_action(exchange.frame)
                  IN IF parsed.ok THEN parsed.action ELSE Fold

(***************************************************************************)
(* The specifications                                                      *)
(***************************************************************************)
BigRaise == 10000000

LogActions == {Fold, Check, Raise(1)}
PotLimitActions == {Fold, Check, Call, Raise(1), Raise(BigRaise)}
SidePotActions == {Check, Call, Raise(10)}
GeneralActions == {Fold, Check, Call, Raise(0), Raise(1), Raise(BigRaise)}

NoCall == [op |-> "new"]

\* the orders of the hands of the seats S the exploration draws from
Rankings(S) ==
    IF cfg.orders = {} THEN WeakOrders(S)
    ELSE {[s \in S |-> Cardinality({o[x] : x \in {y \in S : o[y] <= o[s]}})] :
              o \in cfg.orders}

\* a call of take_action by the driver of the table
TakeAction ==
    /\ table.panic = NoPanic
    /\ table.hand_number < cfg.max_hand \/ is_game_over(table)
    /\ \E hand_action \in cfg.actions :
           \E ranking \in Rankings(ShowdownSeats(table, hand_action)) :
               /\ table' = take_action(table, hand_action, ranking)
               /\ call' = [op |-> "take_action", hand_action |-> hand_action,
                           ranking |-> ranking]
    /\ before' = table
    /\ UNCHANGED cfg

\* a call of deal by the driver once the game is over
DealAfterGameOver ==
    /\ table.panic = NoPanic
    /\ is_game_over(table)
    /\ table' = deal(table)
    /\ call' = [op |-> "deal"]
    /\ before' = table
    /\ UNCHANGED cfg

Next == TakeAction \/ DealAfterGameOver

\* Table::new(N) for the small tables, the log left out
Init ==
    /\ \E n \in SmallTables :
           /\ cfg = [start_money |-> StartMoney,
                     max_hand |-> IF n = 2 THEN MaxHandDuel ELSE MaxHand,
                     log |-> FALSE, actions |-> GeneralActions, orders |-> {}]
           /\ table = Table_new(n, StartMoney)
    /\ before = table
    /\ call = NoCall

Spec == Init /\ [][Next]_vars

\* Table::new(WideSeats), the log left out
InitWide ==
    /\ cfg = [start_money |-> StartMoney, max_hand |-> MaxHand,
              log |-> FALSE, actions |-> GeneralActions, orders |-> {}]
    /\ table = Table_new(WideSeats, StartMoney)
    /\ before = table
    /\ call = NoCall

SpecWide == InitWide /\ [][Next]_vars

\* Table::new(LogSeats) with the log kept
InitLog ==
    /\ cfg = [start_money |-> StartMoney, max_hand |-> LogHands,
              log |-> TRUE, actions |-> LogActions, orders |-> {}]
    /\ table = Table_new(LogSeats, StartMoney)
    /\ before = table
    /\ call = NoCall

SpecLog == InitLog /\ [][Next]_vars

\* Table::new(LogSeats) with the log kept, played into the hand after next
InitLongLog ==
    /\ cfg = [start_money |-> StartMoney, max_hand |-> LongLogHands,
              log |-> TRUE, actions |-> LogActions, orders |-> {}]
    /\ table = Table_new(LogSeats, StartMoney)
    /\ before = table
    /\ call = NoCall

SpecLongLog == InitLongLog /\ [][Next]_vars

\* Table::new(PotLimitSeats) with stacks deep enough for the pot limit to
\* bind before the stack does
InitPotLimit ==
    /\ cfg = [start_money |-> PotLimitMoney, max_hand |-> PotLimitHands,
              log |-> FALSE, actions |-> PotLimitActions, orders |-> {}]
    /\ table = Table_new(PotLimitSeats, PotLimitMoney)
    /\ before = table
    /\ call = NoCall

SpecPotLimit == InitPotLimit /\ [][Next]_vars

\* the table of two_sets_of_ties (table/test.rs): six seats, the first two
\* all-in on the ante and the next two with one chip left
two_sets_of_ties ==
    LET t == Table_new(SidePotSeats, DEFAULT_START_MONEY)
    IN [t EXCEPT !.players[0].total_money = 0,
                 !.players[1].total_money = 0,
                 !.players[2].total_money = 1,
                 !.players[3].total_money = 1]

\* the order of the hands two_sets_of_ties deals: seats 0 and 1 tie with the
\* best hand, seats 2 and 3 tie next, then seat 4, then seat 5
TwoSetsOfTiesRanking ==
    [s \in 0 .. SidePotSeats - 1 |->
        CASE s \in {0, 1} -> 1 [] s \in {2, 3} -> 2 [] s = 4 -> 3 [] OTHER -> 4]

SidePotOrders ==
    {TwoSetsOfTiesRanking,
     [s \in 0 .. SidePotSeats - 1 |-> 1],
     [s \in 0 .. SidePotSeats - 1 |-> SidePotSeats - s]}

InitSidePots ==
    /\ cfg = [start_money |-> DEFAULT_START_MONEY, max_hand |-> SidePotHands,
              log |-> FALSE, actions |-> SidePotActions, orders |-> SidePotOrders]
    /\ table = two_sets_of_ties
    /\ before = table
    /\ call = NoCall

SpecSidePots == InitSidePots /\ [][Next]_vars

\* the frames a client answers with, and the outcomes of one exchange
Frames ==
    {Frame(JsonString("fold"), Absent), Frame(JsonString("CHECK"), Absent),
     Frame(JsonString("call"), Absent), Frame(JsonString("Raise"), JsonInteger(1)),
     Frame(JsonString("raise"), JsonString("1")), Frame(JsonString("raise"), Absent),
     Frame(JsonString("bet"), JsonInteger(1)), Frame(JsonInteger(1), Absent),
     Frame(Absent, Absent), NotJson}

Exchanges ==
    {Exchange(TRUE, "error", "none", NotJson),
     Exchange(TRUE, "ok", "timeout", NotJson),
     Exchange(TRUE, "ok", "closed", NotJson),
     Exchange(TRUE, "ok", "error", NotJson)}
        \cup {Exchange(TRUE, "ok", "message", frame) : frame \in Frames}

\* one pass of the loop of Engine::play_game: get_client_input and then
\* take_action with what it returned
PlayTurn ==
    /\ table.panic = NoPanic
    /\ ~is_game_over(table)
    /\ table.hand_number < cfg.max_hand
    /\ \E exchange \in Exchanges :
           LET hand_action == get_client_input(exchange)
           IN \E ranking \in Rankings(ShowdownSeats(table, hand_action)) :
                  /\ table' = take_action(table, hand_action, ranking)
                  /\ call' = [op |-> "play_turn", exchange |-> exchange,
                              hand_action |-> hand_action, ranking |-> ranking]
    /\ before' = table
    /\ UNCHANGED cfg

NextEngine == PlayTurn

\* Engine::new over EngineSeats connections
InitEngine ==
    /\ cfg = [start_money |-> StartMoney, max_hand |-> EngineHands,
              log |-> TRUE, actions |-> {}, orders |-> {}]
    /\ table = Table_new(EngineSeats, StartMoney)
    /\ before = table
    /\ call = NoCall

SpecEngine == InitEngine /\ [][NextEngine]_vars

\* Table::new for every table size, with the stacks of the program and the
\* log kept; the seats only ever fold
InitNew ==
    /\ \E n \in 2 .. MAX_TABLE_PLAYERS :
           /\ cfg = [start_money |-> DEFAULT_START_MONEY, max_hand |-> NewHands,
                     log |-> TRUE, actions |-> {Fold}, orders |-> {}]
           /\ table = Table_new(n, DEFAULT_START_MONEY)
    /\ before = table
    /\ call = NoCall

SpecNew == InitNew /\ [][TakeAction]_vars

\* the exchanges of a client that never answers, and the frames of a client
\* that never folds
SilentExchanges ==
    {Exchange(TRUE, "error", "none", NotJson),
     Exchange(TRUE, "ok", "timeout", NotJson),
     Exchange(TRUE, "ok", "closed", NotJson),
     Exchange(TRUE, "ok", "error", NotJson)}

LiveExchanges ==
    {Exchange(TRUE, "ok", "message", frame) :
        frame \in {Frame(JsonString("check"), Absent),
                   Frame(JsonString("call"), Absent),
                   Frame(JsonString("raise"), JsonInteger(0)),
                   Frame(JsonString("raise"), JsonInteger(1)),
                   Frame(JsonString("raise"), JsonInteger(BigRaise))}}

\* one pass of the loop of play_game with the exchange drawn from `exchanges`
PlayTurnWith(exchanges) ==
    /\ table.panic = NoPanic
    /\ ~is_game_over(table)
    /\ table.hand_number < cfg.max_hand
    /\ \E exchange \in exchanges :
           LET hand_action == get_client_input(exchange)
           IN \E ranking \in Rankings(ShowdownSeats(table, hand_action)) :
                  /\ table' = take_action(table, hand_action, ranking)
                  /\ call' = [op |-> "play_turn", exchange |-> exchange,
                              hand_action |-> hand_action, ranking |-> ranking]
    /\ before' = table
    /\ UNCHANGED cfg

\* the turn of the seat whose client is silent, and of the other seat
SilentSeatTurn ==
    /\ table.current_player_index = cfg.silent
    /\ PlayTurnWith(SilentExchanges)

LiveSeatTurn ==
    /\ table.current_player_index # cfg.silent
    /\ PlayTurnWith(LiveExchanges)

NextSilent == SilentSeatTurn \/ LiveSeatTurn

\* Engine::new over two connections, either of which is the silent one
InitSilent ==
    /\ \E silent \in {0, 1} :
           cfg = [start_money |-> DEFAULT_START_MONEY, max_hand |-> SilentHands,
                  log |-> FALSE, actions |-> {}, orders |-> {}, silent |-> silent]
    /\ table = Table_new(2, DEFAULT_START_MONEY)
    /\ before = table
    /\ call = NoCall

\* the loop of play_game runs as long as the game is not over
SpecSilent == InitSilent /\ [][NextSilent]_vars /\ WF_vars(NextSilent)

\* the amounts of a raise, the actions whose frames the codec is fed, the
\* tags in other cases, the values of "amount" and the frames that are no
\* action
CodecAmounts == {-I32_MAX - 1, -BigRaise, -1, 0, 1, 50, BigRaise, I32_MAX}

CodecActions == {Fold, Check, Call} \cup {Raise(n) : n \in CodecAmounts}

CodecTags ==
    {"fold", "FOLD", "Fold", "check", "CHECK", "Check",
     "call", "CALL", "Call", "raise", "RAISE", "Raise"}

CodecValues ==
    {Absent, JsonString("2e3"), JsonString("invalid_amount"), JsonFloat("2.5")}
        \cup {JsonInteger(n) : n \in CodecAmounts}

CodecFrames ==
    {emit(hand_action) : hand_action \in CodecActions}
        \cup {Frame(JsonString(tag), amount) :
                  tag \in CodecTags, amount \in CodecValues}
        \cup {Frame(JsonString("invalid_action"), Absent),
              Frame(JsonString("bad"), JsonInteger(1)),
              Frame(JsonInteger(1), JsonInteger(1)),
              Frame(Absent, Absent),
              NotJson}

\* a call of parse_hand_action on the text of a frame
ParseFrame ==
    /\ \E frame \in CodecFrames :
           call' = [op |-> "parse_hand_action", frame |-> frame,
                    result |-> parse_hand_action(frame)]
    /\ UNCHANGED <<table, before, cfg>>

\* no frame parsed yet, the table of a duel beside it
InitCodec ==
    /\ cfg = [start_money |-> StartMoney, max_hand |-> MaxHand,
              log |-> FALSE, actions |-> {}, orders |-> {}]
    /\ table = Table_new(2, StartMoney)
    /\ before = table
    /\ call = NoCall

SpecCodec == InitCodec /\ [][ParseFrame]_vars

(***************************************************************************)
(* Startup (main.rs, args.rs, server.rs, Engine::new).  The engine is its  *)
(* table with the field connections of its Server beside it.               *)
(***************************************************************************)
\* validate_bot_args on the sum of the bot counts
validate_bot_args(sum) ==
    IF sum >= BOT_LIMIT THEN ParseErr("The sum of all bots must be less than 23")
    ELSE [ok |-> TRUE]

\* the accept loop of Server::from_tcp_listener: every connection that
\* arrives before the window closes is pushed
RECURSIVE AcceptAll(_, _)
AcceptAll(connections, arrivals) ==
    IF arrivals = << >> THEN connections
    ELSE AcceptAll(Append(connections, Head(arrivals)), Tail(arrivals))

from_tcp_listener(arrivals) == AcceptAll(<< >>, arrivals)

\* the table of an engine with the connections of its server
with_server(t, connections) ==
    [players |-> t.players,
     dealer_button_index |-> t.dealer_button_index,
     ante |-> t.ante,
     hand_number |-> t.hand_number,
     current_player_index |-> t.current_player_index,
     table_state |-> t.table_state,
     player_bets |-> t.player_bets,
     ante_round_increase |-> t.ante_round_increase,
     round_actions |-> t.round_actions,
     previous_round_actions |-> t.previous_round_actions,
     panic |-> t.panic,
     connections |-> connections]

\* no engine was made: no seats and no connections
NoEngine ==
    [players |-> << >>, dealer_button_index |-> 0, ante |-> 1, hand_number |-> 0,
     current_player_index |-> 0, table_state |-> "PreFlop", player_bets |-> << >>,
     ante_round_increase |-> 0, round_actions |-> << >>,
     previous_round_actions |-> << >>, panic |-> NoPanic, connections |-> << >>]

\* Engine::new: an error for a server without connections, else the engine
Engine_new(connections, money) ==
    IF connections = << >>
    THEN [ok |-> FALSE, error |-> "No connections established.", engine |-> NoEngine]
    ELSE [ok |-> TRUE,
          engine |-> with_server(Table_new(Len(connections), money), connections)]

\* main_result up to play_game: the arguments are validated, the server
\* listens for its window and the engine is made of what it accepted
main_result(bots, arrivals, money) ==
    IF ~validate_bot_args(bots).ok
    THEN [result |-> "ERROR_CODE_BAD_INPUT", engine |-> NoEngine]
    ELSE LET made == Engine_new(from_tcp_listener(arrivals), money)
         IN IF made.ok THEN [result |-> "engine", engine |-> made.engine]
            ELSE [result |-> "ERROR_CODE_NO_SUBS", engine |-> NoEngine]

\* the clients that connect during the window, in the order they arrive
Clients(n) == [k \in 1 .. n |-> 100 + k]

\* one pass of the loop of play_game over the connections of the server:
\* the client of the current seat folds, in words or by silence
RosterTurn ==
    /\ call.result = "engine"
    /\ table.panic = NoPanic
    /\ ~is_game_over(table)
    /\ table.hand_number < cfg.max_hand
    /\ LET index == table.current_player_index
           found == index < Len(table.connections)
       IN \E exchange \in {Exchange(found, "ok", "message", emit(Fold)),
                            Exchange(found, "ok", "timeout", NotJson)} :
              LET hand_action == get_client_input(exchange)
              IN \E ranking \in Rankings(ShowdownSeats(table, hand_action)) :
                     /\ table' = take_action(table, hand_action, ranking)
                     /\ call' = [op |-> "play_turn", exchange |-> exchange,
                                 hand_action |-> hand_action, ranking |-> ranking,
                                 client |-> IF found THEN table.connections[index + 1]
                                            ELSE None,
                                 result |-> "engine"]
    /\ before' = table
    /\ UNCHANGED cfg

\* main_result for a bot total and a number of clients in the window
InitRoster ==
    /\ \E bots \in {BOT_LIMIT - 1, BOT_LIMIT} :
           \E n \in 0 .. RosterClients :
               /\ cfg = [start_money |-> DEFAULT_START_MONEY, max_hand |-> RosterHands,
                         log |-> FALSE, actions |-> {}, orders |-> {},
                         bots |-> bots, arrivals |-> Clients(n)]
               /\ table = main_result(bots, Clients(n), DEFAULT_START_MONEY).engine
               /\ call = [op |-> "main_result",
                          result |-> main_result(bots, Clients(n),
                                                 DEFAULT_START_MONEY).result]
    /\ before = table

SpecRoster == InitRoster /\ [][RosterTurn]_vars

(***************************************************************************)
(* The methods of Player called one by one (player_components.rs).  The    *)
(* player sits alone at a table that is never played.                       *)
(***************************************************************************)
Lone(p) ==
    [players |-> [i \in {0} |-> p], dealer_button_index |-> 0, ante |-> 1,
     hand_number |-> 0, current_player_index |-> 0, table_state |-> "PreFlop",
     player_bets |-> [i \in {0} |-> 0], ante_round_increase |-> 2,
     round_actions |-> << >>, previous_round_actions |-> << >>, panic |-> NoPanic]

\* the amounts bet: nothing, less than, all of and more than a stack
BetAmounts == {0, 1, 2, PlayerMoney + 1}

CallBet ==
    /\ table.panic = NoPanic
    /\ \E bet \in BetAmounts :
           LET done == Player_bet(table.players[0], bet)
           IN /\ table' = [table EXCEPT !.players[0] = done.player,
                                        !.panic = done.panic]
              /\ call' = [op |-> "bet", bet |-> bet, amount |-> done.amount]
    /\ before' = table
    /\ UNCHANGED cfg

CallFold ==
    /\ table.panic = NoPanic
    /\ LET done == Player_fold(table.players[0])
       IN /\ table' = [table EXCEPT !.players[0] = done.player,
                                    !.panic = done.panic]
          /\ call' = [op |-> "fold", bet |-> 0, amount |-> done.amount]
    /\ before' = table
    /\ UNCHANGED cfg

CallDeal ==
    /\ table.panic = NoPanic
    /\ table' = [table EXCEPT !.players[0] = Player_deal(@)]
    /\ call' = [op |-> "deal", bet |-> 0, amount |-> 0]
    /\ before' = table
    /\ UNCHANGED cfg

NextPlayer == CallBet \/ CallFold \/ CallDeal

InitPlayer ==
    /\ \E money \in 0 .. PlayerMoney :
           /\ cfg = [start_money |-> money, max_hand |-> 0, log |-> FALSE,
                     actions |-> {}, orders |-> {}]
           /\ table = Lone(Player_new(0, money))
    /\ before = table
    /\ call = NoCall

SpecPlayer == InitPlayer /\ [][NextPlayer]_vars

(***************************************************************************)
(* The table on which a client raises any amount that parse_hand_action    *)
(* delivers: negative amounts and the ends of the range of i32.            *)
(***************************************************************************)
RaiseActions ==
    {Fold, Check, Call, Raise(-1), Raise(0), Raise(1),
     Raise(I32_MAX), Raise(-I32_MAX - 1)}

\* every stack and every bet of the table is within the cap
WithinCap(t) ==
    \A s \in Seats(t) :
        \A chips \in {t.players[s].total_money, t.players[s].current_bet,
                       t.player_bets[s]} :
            -RaiseCap <= chips /\ chips <= RaiseCap

\* a call of take_action by the driver while the chips are within the cap
TakeAnyRaise == WithinCap(table) /\ TakeAction

InitRaise ==
    /\ cfg = [start_money |-> StartMoney, max_hand |-> RaiseHands,
              log |-> FALSE, actions |-> RaiseActions, orders |-> {}]
    /\ \E n \in SmallTables : table = Table_new(n, StartMoney)
    /\ before = table
    /\ call = NoCall

SpecRaise == InitRaise /\ [][TakeAnyRaise]_vars

(***************************************************************************)
(* The streams of the clients.  Engine::get_client_input sends the state   *)
(* on the stream of the seat and reads the next frame of that stream under *)
(* the deadline; a frame that the read did not take stays on the stream.   *)
(***************************************************************************)

\* a WebSocket stream: the state messages sent on it so far and the frames
\* of the client that were not read yet, the oldest first, each with the
\* state message that it answers
Stream(sent, unread) == [sent |-> sent, unread |-> unread]

\* connection.send: one more state message on the stream
send(stream) == [stream EXCEPT !.sent = @ + 1]

\* the client answers the last state message that it got
answer(stream, frame) ==
    [stream EXCEPT !.unread = Append(@, [reply_to |-> stream.sent,
                                         frame |-> frame])]

\* timeout(read_timeout, connection.next()): the oldest frame that was not
\* read yet, or the timeout on a stream without one
next_frame(stream) ==
    IF stream.unread = << >>
    THEN [read |-> "timeout", reply_to |-> 0, frame |-> NotJson, stream |-> stream]
    ELSE [read |-> "message", reply_to |-> Head(stream.unread).reply_to,
          frame |-> Head(stream.unread).frame,
          stream |-> [stream EXCEPT !.unread = Tail(@)]]

\* what a client does with a state message: it answers before the deadline,
\* after it, or never
Paces == {"in time", "late", "silent"}
StreamFrames == {emit(Check), emit(Call)}

\* one pass of the loop of Engine::play_game over the streams: the state is
\* sent, the stream is read under the deadline, and take_action is called
\* with what get_client_input made of the read
StreamTurn ==
    /\ table.panic = NoPanic
    /\ ~is_game_over(table)
    /\ table.hand_number < cfg.max_hand
    /\ \E pace \in Paces, frame \in StreamFrames :
           LET index == table.current_player_index
               sent == send(table.connections[index + 1])
               got == next_frame(IF pace = "in time" THEN answer(sent, frame)
                                 ELSE sent)
               left == IF pace = "late" THEN answer(got.stream, frame)
                       ELSE got.stream
               exchange == Exchange(TRUE, "ok", got.read, got.frame)
               hand_action == get_client_input(exchange)
           IN \E ranking \in Rankings(ShowdownSeats(table, hand_action)) :
                  /\ table' = [take_action(table, hand_action, ranking)
                                   EXCEPT !.connections[index + 1] = left]
                  /\ call' = [op |-> "play_turn", exchange |-> exchange,
                              hand_action |-> hand_action, ranking |-> ranking,
                              pace |-> pace, request |-> sent.sent,
                              reply_to |-> got.reply_to]
    /\ before' = table
    /\ UNCHANGED cfg

\* Engine::new over StreamSeats streams on which nothing was sent yet
InitStream ==
    /\ cfg = [start_money |-> StartMoney, max_hand |-> StreamHands,
              log |-> FALSE, actions |-> {}, orders |-> {}]
    /\ table = Engine_new([s \in 1 .. StreamSeats |-> Stream(0, << >>)],
                          StartMoney).engine
    /\ before = table
    /\ call = NoCall

SpecStream == InitStream /\ [][StreamTurn]_vars

(***************************************************************************)
(* The cards.  A card is a number of 1 .. 52, four suits to a rank.  The   *)
(* table that carries cards has the fields flop, turn and river of the     *)
(* struct Table, and `hands`, the field hand of the ActiveState of every   *)
(* seat (NoCards for a Folded seat, which has no ActiveState).             *)
(***************************************************************************)
DeckSize == 52

NoCards == << >>

RankChars == <<"2", "3", "4", "5", "6", "7", "8", "9", "T", "J", "Q", "K", "A">>

SuitChars == <<"C", "H", "S", "D">>

\* CardPrinting::to_ascii_string: the rank and then the letter of the suit
to_ascii_string(card) ==
    <<RankChars[((card - 1) \div 4) + 1], SuitChars[((card - 1) % 4) + 1]>>

\* the decks Card::generate_shuffled_deck is taken to return: every card
\* once, the order cut at one of DeckCuts
Decks == {[i \in 1 .. DeckSize |-> ((i - 1 + cut) % DeckSize) + 1] : cut \in DeckCuts}

\* the table with its card fields, before any card is dealt (Table::new)
with_no_cards(t) ==
    [players |-> t.players,
     dealer_button_index |-> t.dealer_button_index,
     ante |-> t.ante,
     hand_number |-> t.hand_number,
     current_player_index |-> t.current_player_index,
     table_state |-> t.table_state,
     player_bets |-> t.player_bets,
     ante_round_increase |-> t.ante_round_increase,
     round_actions |-> t.round_actions,
     previous_round_actions |-> t.previous_round_actions,
     panic |-> t.panic,
     flop |-> NoCards, turn |-> None, river |-> None,
     hands |-> [i \in Seats(t) |-> NoCards]]

\* the deck iterator ran dry: next() is None and unwrap panics
OutOfCards == "called Option::unwrap() on a None value"

DeckRanDry(t) == with_panic(t, OutOfCards)

deal_table_cards(t, deck) ==
    IF Len(deck) < 5 THEN DeckRanDry(t)
    ELSE [t EXCEPT !.flop = <<deck[1], deck[2], deck[3]>>,
                   !.turn = deck[4],
                   !.river = deck[5]]

\* the cards deal_player_cards_collect_ante hands out if each seat's pair
\* started one card early
deal_player_cards_one_early(t, deck) ==
    LET place(i) == Cardinality({j \in AliveSeats(t) : j < i})
    IN IF 5 + 2 * Cardinality(AliveSeats(t)) > Len(deck) THEN DeckRanDry(t)
       ELSE [t EXCEPT !.hands =
                [i \in Seats(t) |->
                    IF is_alive(t.players[i])
                    THEN <<deck[5 + 2 * place(i)], deck[6 + 2 * place(i)]>>
                    ELSE NoCards]]

\* the cards of deal_player_cards_collect_ante: the alive seats, in seat
\* order, take the next two cards each
deal_player_cards(t, deck) ==
    LET place(i) == Cardinality({j \in AliveSeats(t) : j < i})
    IN IF 5 + 2 * Cardinality(AliveSeats(t)) > Len(deck) THEN DeckRanDry(t)
       ELSE [t EXCEPT !.hands =
                [i \in Seats(t) |->
                    IF is_alive(t.players[i])
                    THEN <<deck[6 + 2 * place(i)], deck[7 + 2 * place(i)]>>
                    ELSE NoCards]]

\* the cards of one deal
deal_cards(t, deck) == deal_player_cards(deal_table_cards(t, deck), deck)

\* a Folded seat has no hand
drop_folded_hands(t) ==
    [t EXCEPT !.hands = [i \in Seats(t) |->
                            IF is_active(t.players[i]) THEN @[i] ELSE NoCards]]

\* Table::new with the deck its deal shuffles
Table_new_dealing(number_of_players, money, deck) ==
    LET t == with_no_cards(Table_new(number_of_players, money))
    IN IF t.hand_number = 0 THEN t
       ELSE drop_folded_hands(deal_cards(t, deck))

\* take_action with the deck of the deal it may end in
take_action_dealing(t, hand_action, ranking, deck) ==
    LET t1 == take_action(t, hand_action, ranking)
    IN drop_folded_hands(IF t1.hand_number # t.hand_number
                         THEN deal_cards(t1, deck)
                         ELSE t1)

(***************************************************************************)
(* The view sent to a client (get_table_state_json_for_player).  A JSON    *)
(* object is a record, a JSON array a sequence, and a JSON string the      *)
(* sequence of its pieces: the two of a card, or one marker.               *)
(***************************************************************************)
JsonNone == <<"None">>

JsonHidden == <<"Hidden">>

\* Table::get_flop_string, which shows the flop at every stage
get_flop_string(t) ==
    IF t.flop = NoCards THEN <<JsonNone>>
    ELSE <<to_ascii_string(t.flop[1]), to_ascii_string(t.flop[2]),
           to_ascii_string(t.flop[3])>>

get_flop_string_secret(t) ==
    IF t.flop = NoCards THEN <<JsonNone>>
    ELSE IF t.table_state = "PreFlop" THEN <<JsonHidden>>
    ELSE <<to_ascii_string(t.flop[1]), to_ascii_string(t.flop[2]),
           to_ascii_string(t.flop[3])>>

get_turn_string_secret(t) ==
    IF t.turn = None THEN JsonNone
    ELSE IF t.table_state \in {"PreFlop", "Flop"} THEN JsonHidden
    ELSE to_ascii_string(t.turn)

get_river_string_secret(t) ==
    IF t.river = None THEN JsonNone
    ELSE IF t.table_state = "River" THEN to_ascii_string(t.river)
    ELSE JsonHidden

\* PlayerState::get_bet and PlayerState::get_cards_json of seat i
get_bet(t, i) ==
    IF is_active(t.players[i]) THEN t.players[i].current_bet ELSE 0

get_cards_json(t, i) ==
    IF is_active(t.players[i])
    THEN <<to_ascii_string(t.hands[i][1]), to_ascii_string(t.hands[i][2])>>
    ELSE << >>

\* Player::as_json_no_secret_data; details is the list of its members
as_json_no_secret_data(p) ==
    [id |-> p.id,
     player_state |->
         IF is_active(p)
         THEN [state_type |-> "active", details |-> <<<<"bet", p.current_bet>>>>]
         ELSE [state_type |-> "folded", details |-> << >>],
     total_money |-> p.total_money]

get_table_state_json_for_player(t, id) ==
    [id |-> id,
     current_bet |-> get_bet(t, t.current_player_index),
     cards |-> get_cards_json(t, t.current_player_index),
     hand_number |-> t.hand_number,
     current_highest_bet |-> get_largest_active_bet(t),
     flop |-> get_flop_string_secret(t),
     turn |-> get_turn_string_secret(t),
     river |-> get_river_string_secret(t),
     dealer_button_index |-> t.dealer_button_index,
     players |-> [i \in Seats(t) |-> as_json_no_secret_data(t.players[i])],
     actions |-> t.round_actions,
     previous_actions |-> t.previous_round_actions]

(***************************************************************************)
(* The table with its cards                                                *)
(***************************************************************************)
CardActions == {Fold, Check, Call, Raise(1)}

\* a call of take_action by the driver of the table, the deal shuffling
TakeActionDealing ==
    /\ table.panic = NoPanic
    /\ table.hand_number < cfg.max_hand \/ is_game_over(table)
    /\ \E hand_action \in cfg.actions :
           \E ranking \in Rankings(ShowdownSeats(table, hand_action)) :
               \E deck \in Decks :
                   /\ table' = take_action_dealing(table, hand_action, ranking, deck)
                   /\ call' = [op |-> "take_action", hand_action |-> hand_action,
                               ranking |-> ranking, deck |-> deck]
    /\ before' = table
    /\ UNCHANGED cfg

NextCards == TakeActionDealing

\* Table::new for a duel and, with the stacks of the program, for every
\* larger table up to the fullest, which only ever fold
InitCards ==
    /\ \E n \in 2 .. MAX_TABLE_PLAYERS :
           \E deck \in Decks :
               /\ cfg = [start_money |-> IF n = 2 THEN StartMoney
                                         ELSE DEFAULT_START_MONEY,
                         max_hand |-> CardHands,
                         log |-> FALSE,
                         actions |-> IF n = 2 THEN CardActions ELSE {Fold},
                         orders |-> {}]
               /\ table = Table_new_dealing(n, cfg.start_money, deck)
    /\ before = table
    /\ call = NoCall

SpecCards == InitCards /\ [][NextCards]_vars

(***************************************************************************)
(* Properties                                                              *)
(***************************************************************************)
\* the engine is awaiting input: the last call returned, the game goes on
AwaitingInput == table.panic = NoPanic /\ ~is_game_over(table)

\* the last operation was a take_action that was not a game-over no-op
Acted == call.op \in {"take_action", "play_turn"} /\ ~is_game_over(before)

TotalMoney(t) == Sum([i \in Seats(t) |-> t.players[i].total_money])

\* C1: the players' total_money and the pot always add up to the chips the
\* players started with
C1_Conservation ==
    table.panic = NoPanic =>
        TotalMoney(table) + get_pot_size(table)
            = get_player_count(table) * cfg.start_money

\* C2: whenever the engine awaits input the current player is alive, Active
\* and not all-in
C2_TurnWellFormed ==
    AwaitingInput =>
        /\ is_alive(get_current_player(table))
        /\ is_active(get_current_player(table))
        /\ get_current_player(table).total_money > 0

\* C3: no sequence of actions makes the table panic
C3_NoFatalError == table.panic = NoPanic

\* the last take_action ended in a showdown between at least two hands
ShowedDown == Acted /\ ShowdownSeats(before, call.hand_action) # {}

\* the table the showdown of the last take_action started from
AtShowdown == close_betting(take_provided_action(before, call.hand_action)).table

\* the table when the showdown of the last take_action had paid every class
AfterPayout ==
    PayClasses(AtShowdown, get_hand_result(AtShowdown, call.ranking), 1)

\* C6: a showdown credits to the winners every chip it removes from
\* player_bets
C6_SidePotsPaidInFull ==
    ShowedDown =>
        TotalMoney(AfterPayout) - TotalMoney(AtShowdown)
            = get_pot_size(AtShowdown) - get_pot_size(AfterPayout)

\* C4: once the game is over, take_action and deal change nothing and the
\* game stays over
C4_GameOverFrozen ==
    (is_game_over(before) /\ call.op \in {"take_action", "deal"}) =>
        table = before /\ is_game_over(table)

\* a Raise fed to take_action after the game was over
C4_Witness ==
    /\ is_game_over(before)
    /\ call.op = "take_action"
    /\ call.hand_action = Raise(1)
    /\ before.hand_number > 1
    /\ Len(before.previous_round_actions) > 1

\* what the hand the last take_action resolved paid to seat s: its chips
\* after the next ante, the ante added back, less its chips before
Payout(s) ==
    table.players[s].total_money + table.player_bets[s]
        - before.players[s].total_money

\* the last take_action folded the current player (a Fold, or a Check into
\* a bet) and left one Active player
LeftOneActive ==
    /\ Acted
    /\ \/ call.hand_action = Fold
       \/ /\ call.hand_action = Check
          /\ get_largest_active_bet(before) > get_current_player(before).current_bet
    /\ Cardinality(ActiveSeats(before) \ {before.current_player_index}) = 1

\* C8: the last Active player is paid the whole pot, nobody else is paid,
\* and the next hand is dealt; after a first Raise(1) that every other seat
\* checks into, the raiser holds start + N - 2 after the next ante
C8_LastActiveTakesPot ==
    /\ LeftOneActive =>
           LET winner == CHOOSE s \in ActiveSeats(before) :
                             s # before.current_player_index
           IN /\ table.panic = NoPanic
              /\ ShowdownSeats(before, call.hand_action) = {}
              /\ table.hand_number = before.hand_number + 1
              /\ table.table_state = "PreFlop"
              /\ Payout(winner) = get_pot_size(before)
              /\ \A s \in Seats(table) \ {winner} : Payout(s) = 0
    /\ ( /\ Acted
         /\ before.hand_number = 1
         /\ before.current_player_index = 0
         /\ ActiveSeats(before) = {0, 1}
         /\ before.player_bets = [s \in Seats(before) |-> IF s = 1 THEN 2 ELSE 1]
         /\ call.hand_action = Check ) =>
           table.players[1].total_money
               = cfg.start_money + get_player_count(table) - 2

\* three seats: the first actor raised and the last seat checks into the bet
C8_Witness ==
    /\ LeftOneActive
    /\ get_player_count(table) = 3
    /\ before.hand_number = 1
    /\ before.current_player_index = 0
    /\ before.player_bets = [s \in Seats(before) |-> IF s = 1 THEN 2 ELSE 1]
    /\ call.hand_action = Check
    /\ table.hand_number = 2

\* the seat the last call acted for, and the log of the hand it acted in
ActingSeat == before.current_player_index

SameHand == table.hand_number = before.hand_number

HandLog == IF SameHand THEN table.round_actions ELSE table.previous_round_actions

\* the entry the last call pushed for the acting seat
ActionEntry == HandLog[Len(before.round_actions) + 1]

PlayerEntries(log) ==
    Cardinality({k \in 1 .. Len(log) : log[k].type = "TakePlayerAction"})

\* the exchange ended without a frame that parses as a HandAction
Failed(exchange) ==
    \/ exchange.send = "error"
    \/ exchange.read \in {"timeout", "closed", "error"}
    \/ exchange.read = "message" /\ ~parse_hand_action(exchange.frame).ok

\* C5: every turn of the engine yields one HandAction; a failed send, a
\* closed channel, a receive error, an expired deadline and an unparsable
\* frame each yield Fold, and the table then takes that Fold once
C5_FailedTurnFolds ==
    call.op = "play_turn" =>
        /\ call.hand_action.kind \in {"Fold", "Check", "Call", "Raise"}
        /\ Failed(call.exchange) =>
               /\ call.hand_action = Fold
               /\ table = take_action(before, Fold, call.ranking)
               /\ ActionEntry = TakePlayerAction(ActingSeat, Fold)
               /\ PlayerEntries(HandLog) = PlayerEntries(before.round_actions) + 1

\* an expired read deadline on the second turn of the hand
C5_Witness ==
    /\ call.op = "play_turn"
    /\ call.exchange.read = "timeout"
    /\ Len(before.round_actions) = 2
    /\ table.hand_number = before.hand_number + 1

\* the bets and the stacks of a table as sequences in seat order
Bets(t) == [k \in 1 .. get_player_count(t) |-> t.player_bets[k - 1]]

Stacks(t) == [k \in 1 .. get_player_count(t) |-> t.players[k - 1].total_money]

\* what the showdown of the last take_action paid to seat s
ShowdownPayout(s) ==
    AfterPayout.players[s].total_money - AtShowdown.players[s].total_money

\* the Active seats with the best hand at the showdown
BestClass == {s \in ActiveSeats(AtShowdown) : call.ranking[s] = 1}

Difference ==
    get_largest_active_bet(before) - get_current_player(before).current_bet

\* C9: a Check into a bet is logged as Fold and folds the seat, which is
\* paid nothing if the hand ends; a Check with nothing to call is logged as
\* Check, moves no money, keeps the seat Active and counts as its turn
C9_CheckIntoBetFolds ==
    (Acted /\ call.hand_action = Check) =>
        IF Difference > 0
        THEN /\ ActionEntry = TakePlayerAction(ActingSeat, Fold)
             /\ ~is_active(take_provided_action(before, Check).players[ActingSeat])
             /\ SameHand => ~is_active(table.players[ActingSeat])
             /\ ~SameHand => Payout(ActingSeat) = 0
        ELSE /\ ActionEntry = TakePlayerAction(ActingSeat, Check)
             /\ LET checked == take_provided_action(before, Check)
                IN /\ checked.player_bets = before.player_bets
                   /\ checked.players[ActingSeat] =
                          [before.players[ActingSeat] EXCEPT
                              !.has_had_turn_this_round = TRUE]
             /\ SameHand =>
                    /\ table.player_bets = before.player_bets
                    /\ is_active(table.players[ActingSeat])
                    /\ table.players[ActingSeat].total_money
                           = before.players[ActingSeat].total_money
                    /\ table.table_state = before.table_state =>
                           table.players[ActingSeat].has_had_turn_this_round

\* a Check into a bet after which the hand goes on with the seat Folded
C9_Witness ==
    /\ Acted
    /\ call.hand_action = Check
    /\ Difference > 0
    /\ SameHand
    /\ ~is_active(table.players[ActingSeat])
    /\ ActionEntry = TakePlayerAction(ActingSeat, Fold)

\* what the pot limit and the stack leave of a Raise by the acting seat
RaisePaid ==
    Min(Min(call.hand_action.amount + Difference, get_pot_size(before) + Difference),
        get_current_player(before).total_money)

AfterAction == take_provided_action(before, call.hand_action)

\* the last take_action left at least two Active players
LeftTwoActive == Acted /\ Cardinality(ActiveSeats(AfterAction)) >= 2

\* every Active seat has had its turn or is all-in, and every Active seat
\* that is not all-in has matched the highest bet
RoundComplete(t) ==
    LET highest == Max({t.players[s].current_bet : s \in ActiveSeats(t)})
    IN \A s \in ActiveSeats(t) :
           /\ t.players[s].has_had_turn_this_round \/ t.players[s].total_money = 0
           /\ t.players[s].total_money = 0 \/ t.players[s].current_bet = highest

\* the last take_action closed the betting stage it acted in
StageClosed == ~SameHand \/ table.table_state # before.table_state

StageRank(stage) ==
    CASE stage = "PreFlop" -> 0
      [] stage = "Flop" -> 1
      [] stage = "Turn" -> 2
      [] stage = "River" -> 3

IsAdvance(entry) == entry.type \in {"AdvanceToFlop", "AdvanceToTurn", "AdvanceToRiver"}

\* the stage advances a log records, in the order it records them
Advances(log) == SelectSeq(log, IsAdvance)

StagePath == <<AdvanceToFlop, AdvanceToTurn, AdvanceToRiver>>

\* the legal checks a log records, and whether its players did nothing else
Checks(log) ==
    Cardinality({k \in 1 .. Len(log) :
                     log[k].type = "TakePlayerAction" /\ log[k].action = Check})

OnlyChecks(log) == Checks(log) = PlayerEntries(log)

\* C12: the stages of a hand are closed in the order Flop, Turn, River, one
\* advance per closure, never backwards and never past River; a new hand
\* starts in PreFlop; while all N seats only check, every N checks close one
\* stage and the hand resolves after 4 N checks
C12_StageOrder ==
    /\ table.panic = NoPanic =>
           Advances(table.round_actions)
               = SubSeq(StagePath, 1, StageRank(table.table_state))
    /\ (Acted /\ SameHand) =>
           StageRank(table.table_state) >= StageRank(before.table_state)
    /\ (Acted /\ ~SameHand /\ table.panic = NoPanic) =>
           /\ table.table_state = "PreFlop"
           /\ \E n \in 0 .. 3 :
                  Advances(table.previous_round_actions) = SubSeq(StagePath, 1, n)
           /\ ShowedDown => Advances(table.previous_round_actions) = StagePath
    /\ ( /\ table.hand_number = 1
         /\ OnlyChecks(table.round_actions) ) =>
           /\ Checks(table.round_actions) < 4 * get_player_count(table)
           /\ StageRank(table.table_state)
                  = Checks(table.round_actions) \div get_player_count(table)
    /\ ( /\ Acted
         /\ table.hand_number = 2
         /\ OnlyChecks(table.previous_round_actions) ) =>
           /\ Checks(table.previous_round_actions) = 4 * get_player_count(table)
           /\ ShowedDown

\* hand 1 resolved after every seat checked through the four stages
C12_Witness ==
    /\ Acted
    /\ table.hand_number = 2
    /\ OnlyChecks(table.previous_round_actions)
    /\ Checks(table.previous_round_actions) = 4 * LogSeats
    /\ Advances(table.previous_round_actions) = StagePath
    /\ table.table_state = "PreFlop"

(***************************************************************************)
(* The duel with a silent client                                           *)
(***************************************************************************)
\* the seat that is not the silent one
LiveSeat == 1 - cfg.silent

\* every hand ends on a Fold of the silent seat and pays the whole pot to
\* the other seat; when the game is over the silent seat is the dead one and
\* get_results ranks the other seat first
SilentSeatLoses ==
    /\ table.panic = NoPanic
    /\ (call.op = "play_turn" /\ ~SameHand) =>
           /\ ActingSeat = cfg.silent
           /\ call.hand_action = Fold
           /\ Payout(LiveSeat) = get_pot_size(before)
           /\ Payout(cfg.silent) = 0
    /\ (call.op = "play_turn" /\ ActingSeat = LiveSeat) =>
           is_active(table.players[LiveSeat])
    /\ is_game_over(table) =>
           /\ AliveSeats(table) = {LiveSeat}
           /\ table.players[cfg.silent].death_hand_number = table.hand_number
           /\ get_results(table)[1].player = LiveSeat
           /\ get_results(table)[1].rank = 1
           /\ get_results(table)[2].rank = 2

\* a hand of the duel lasts at most two turns and costs the silent seat
\* chips, and the loop of play_game is never cut short before the game is over
SilentSeatDrains ==
    /\ (call.op = "play_turn" /\ SameHand) =>
           /\ ActingSeat = LiveSeat
           /\ table.current_player_index = cfg.silent
    /\ (call.op = "play_turn" /\ ~SameHand) =>
           /\ \/ is_game_over(table)
              \/ table.players[cfg.silent].total_money
                     < before.players[cfg.silent].total_money
           /\ table.hand_number = before.hand_number + 1
    /\ ~is_game_over(table) =>
           /\ table.hand_number < cfg.max_hand
           /\ table.players[cfg.silent].total_money > 0

\* C13: in a duel where one seat's turns all resolve to Fold and the other
\* seat never folds, the other seat collects every pot, every hand ends
\* within two turns with the silent seat poorer, the game becomes over
\* with the other seat the only one alive, and get_results ranks it first
C13_SilentSeatEndsGame == SilentSeatLoses /\ SilentSeatDrains

\* the game ended on a timeout of the silent seat
C13_Witness ==
    /\ is_game_over(table)
    /\ call.op = "play_turn"
    /\ call.exchange.read = "timeout"
    /\ AliveSeats(table) = {LiveSeat}
    /\ table.hand_number > 4

(***************************************************************************)
(* Termination of the game loop                                            *)
(***************************************************************************)
\* the loop of play_game has stopped: the table is over or the thread died
LoopStopped == is_game_over(table) \/ table.panic # NoPanic

\* C14: whatever the clients send and however the deck falls, the game can
\* still end (some seat is alive, since a dead seat never comes back) and
\* the loop stops only on a table that is over with exactly one seat alive
C14_GameTerminates ==
    /\ AliveSeats(table) # {}
    /\ LoopStopped =>
           /\ is_game_over(table)
           /\ Cardinality(AliveSeats(table)) = 1

(***************************************************************************)
(* The view of a seat                                                      *)
(***************************************************************************)
BoardCards(t) ==
    IF t.flop = NoCards THEN {}
    ELSE {t.flop[1], t.flop[2], t.flop[3], t.turn, t.river}

HandCards(t, i) == {t.hands[i][k] : k \in DOMAIN t.hands[i]}

\* the tables that differ from the table only in the hole cards of seats
\* other than `seat`, those cards taken from another deal and in nobody
\* else's hand or on the board
TwinTables(seat) ==
    {twin \in {[table EXCEPT !.hands =
                   [i \in Seats(table) |->
                       IF i = seat \/ ~is_active(table.players[i]) THEN @[i]
                       ELSE deal_player_cards(table, deck).hands[i]]] :
               deck \in Decks} :
        \A i \in Seats(table) \ {seat} :
            HandCards(twin, i) \cap (HandCards(table, seat) \cup BoardCards(table)) = {}}

\* the strings of the hole cards of a seat
OwnCards(seat) ==
    IF is_active(table.players[seat])
    THEN <<to_ascii_string(table.hands[seat][1]), to_ascii_string(table.hands[seat][2])>>
    ELSE << >>

\* C15: for every seat, whether or not it is the seat to act, the view of
\* that seat is the same on every table that differs only in the hole cards
\* of the other seats, and the hole cards in it are the seat's own
C15_ProjectionHidesCards ==
    table.panic = NoPanic =>
        \A seat \in Seats(table) :
            /\ \A twin \in TwinTables(seat) :
                   get_table_state_json_for_player(twin, seat)
                       = get_table_state_json_for_player(table, seat)
            /\ get_table_state_json_for_player(table, seat).cards = OwnCards(seat)

\* the view sent to the seat to act
ViewSent == get_table_state_json_for_player(table, table.current_player_index)

\* the strings of the flop of the table
FlopShown ==
    <<to_ascii_string(table.flop[1]), to_ascii_string(table.flop[2]),
      to_ascii_string(table.flop[3])>>

\* C16: the view shows flop, turn and river as Hidden before the flop, the
\* flop alone at the Flop, flop and turn at the Turn and all five cards at
\* the River; None stands only for a card that was never dealt, and every
\* table a client is asked about has been dealt its five cards
C16_StageAwareBoard ==
    table.panic = NoPanic =>
        /\ table.flop # NoCards /\ table.turn # None /\ table.river # None
        /\ ViewSent.flop # <<JsonNone>>
        /\ ViewSent.turn # JsonNone
        /\ ViewSent.river # JsonNone
        /\ table.table_state = "PreFlop" =>
               /\ ViewSent.flop = <<JsonHidden>>
               /\ ViewSent.turn = JsonHidden
               /\ ViewSent.river = JsonHidden
        /\ table.table_state = "Flop" =>
               /\ ViewSent.flop = FlopShown
               /\ ViewSent.turn = JsonHidden
               /\ ViewSent.river = JsonHidden
        /\ table.table_state = "Turn" =>
               /\ ViewSent.flop = FlopShown
               /\ ViewSent.turn = to_ascii_string(table.turn)
               /\ ViewSent.river = JsonHidden
        /\ table.table_state = "River" =>
               /\ ViewSent.flop = FlopShown
               /\ ViewSent.turn = to_ascii_string(table.turn)
               /\ ViewSent.river = to_ascii_string(table.river)
        /\ table.table_state \in {"PreFlop", "Flop", "Turn", "River"}

\* the betting reached the Flop of a later hand: the flop is shown, the
\* turn and the river are not
C16_Witness ==
    /\ Acted
    /\ table.panic = NoPanic
    /\ table.hand_number > 1
    /\ table.table_state = "Flop"
    /\ ViewSent.flop = FlopShown
    /\ ViewSent.turn = JsonHidden
    /\ ViewSent.river = JsonHidden

(***************************************************************************)
(* Death, the ante and the hand number                                     *)
(***************************************************************************)
DeadSeats(t) == Seats(t) \ AliveSeats(t)

\* C17: a seat that is dead keeps its death_hand_number and its total_money
\* through every operation, is never the current player of a table that an
\* operation returns, and wherever the engine awaits input it is Folded
\* (dealt no cards) with no ante in the pot
C17_DeathMonotone ==
    /\ \A s \in DeadSeats(before) :
           /\ table.players[s].death_hand_number = before.players[s].death_hand_number
           /\ table.players[s].total_money = before.players[s].total_money
    /\ \A s \in DeadSeats(table) :
           /\ table.panic = NoPanic => table.current_player_index # s
           /\ AwaitingInput =>
                  /\ ~is_active(table.players[s])
                  /\ table.players[s].current_bet = 0
                  /\ table.player_bets[s] = 0

\* a hand was dealt around a seat that was already dead, and the game goes on
C17_Witness ==
    /\ Acted
    /\ ~SameHand
    /\ AwaitingInput
    /\ DeadSeats(before) # {}
    /\ \E s \in DeadSeats(before) :
           before.players[s].death_hand_number < table.hand_number

\* the seats at construction, dead seats included
SeatCount == Cardinality(Seats(table))

\* the ante the hand that is being played was dealt with
AnteDealt == 1 + (table.hand_number - 1) \div (2 * SeatCount)

\* C18: after h deals the ante is 1 + floor(h / 2N), so 1 + k after k * 2N
\* deals; hand h was dealt with ante 1 + floor((h - 1) / 2N), which is what
\* every alive seat has in the pot when the hand starts; and an operation
\* changes the ante only by +1, when it ends in a deal whose hand_number is
\* a multiple of 2N
C18_AnteEscalation ==
    table.panic = NoPanic =>
        /\ table.ante_round_increase = 2 * SeatCount
        /\ table.ante = 1 + table.hand_number \div (2 * SeatCount)
        /\ (call.op = "new" \/ ~SameHand) =>
               \A s \in AliveSeats(table) : table.player_bets[s] = AnteDealt
        /\ IF ~SameHand /\ table.hand_number % (2 * SeatCount) = 0
           THEN table.ante = before.ante + ANTE_INCREASE_AMOUNT
           ELSE table.ante = before.ante

\* the second raise of the ante in a duel: hand 8 is dealt with ante 2 and
\* leaves the ante at 3
C18_Witness ==
    /\ Acted
    /\ table.panic = NoPanic
    /\ SeatCount = 2
    /\ before.hand_number = 7
    /\ table.hand_number = 8
    /\ before.ante = 2
    /\ table.ante = 3
    /\ \E s \in AliveSeats(table) : table.player_bets[s] = 2

\* the last take_action ended its hand: it left one seat Active or it
\* closed the betting of the River
HandEnded == LeftOneActive \/ ShowedDown

\* C19: no operation lowers hand_number or raises it by more than 1; a
\* take_action that ends its hand deals, and that deal raises hand_number
\* by exactly 1; one that does not end its hand, and every take_action or
\* deal on a table that is over, leaves it as it was
C19_HandNumberMonotone ==
    /\ table.hand_number >= before.hand_number
    /\ table.hand_number <= before.hand_number + 1
    /\ table.hand_number >= 1
    /\ HandEnded => table.hand_number = before.hand_number + 1
    /\ (Acted /\ ~HandEnded) => table.hand_number = before.hand_number
    /\ is_game_over(before) => table.hand_number = before.hand_number

\* a showdown of a later hand dealt the next one
C19_Witness ==
    /\ ShowedDown
    /\ table.panic = NoPanic
    /\ before.hand_number = 2
    /\ table.hand_number = 3

(***************************************************************************)
(* The cards in play                                                       *)
(***************************************************************************)
\* the hole cards of the seats that hold a hand
HoleCards(t) == UNION {HandCards(t, i) : i \in Seats(t)}

\* the table is as a deal left it: Table::new, or a take_action that dealt
FreshlyDealt == call.op = "new" \/ ~SameHand

\* C20: the five board cards and the two hole cards of every seat that
\* holds a hand are pairwise distinct cards of the deck; a deal gives every
\* alive seat its two cards and no dead seat any; and for every table of up
\* to 23 seats the deck never runs dry, since 5 + 2N <= 52
C20_CardsUnique ==
    /\ table.panic # OutOfCards
    /\ 5 + 2 * SeatCount <= DeckSize
    /\ Cardinality(BoardCards(table)) = 5
    /\ \A i \in Seats(table) :
           Cardinality(HandCards(table, i))
               = IF is_active(table.players[i]) THEN 2 ELSE 0
    /\ Cardinality(BoardCards(table) \cup HoleCards(table))
           = 5 + 2 * Cardinality(ActiveSeats(table))
    /\ BoardCards(table) \cup HoleCards(table) \subseteq 1 .. DeckSize
    /\ FreshlyDealt =>
           \A i \in Seats(table) :
               is_active(table.players[i]) <=> is_alive(table.players[i])

\* the fullest table after a later deal: 23 seats hold 46 distinct cards
\* beside the 5 of the board
C20_Witness ==
    /\ Acted
    /\ ~SameHand
    /\ table.panic = NoPanic
    /\ SeatCount = MAX_TABLE_PLAYERS
    /\ Cardinality(HoleCards(table)) = 2 * MAX_TABLE_PLAYERS
    /\ Cardinality(BoardCards(table) \cup HoleCards(table)) = DeckSize - 1

(***************************************************************************)
(* The table Table::new returns                                            *)
(***************************************************************************)
\* C21: Table::new(N), 2 <= N <= 23, returns hand 1 in PreFlop with ante 1,
\* the button on seat 0 and seat 1 to act, every seat alive and Active
\* with its ante of 1 in the pot and 499 chips left, and a log holding
\* only the DealCards entry
C21_InitialState ==
    call.op = "new" =>
        /\ SeatCount \in 2 .. MAX_TABLE_PLAYERS
        /\ table.panic = NoPanic
        /\ table.hand_number = 1
        /\ table.ante = 1
        /\ table.table_state = "PreFlop"
        /\ table.dealer_button_index = 0
        /\ table.current_player_index = 1
        /\ \A i \in Seats(table) :
               /\ is_alive(table.players[i])
               /\ is_active(table.players[i])
               /\ table.players[i].current_bet = 1
               /\ table.players[i].total_money = DEFAULT_START_MONEY - 1
               /\ table.player_bets[i] = 1
        /\ Len(table.round_actions) = 1
        /\ table.round_actions[1].type = "DealCards"

\* the fullest table as Table::new returns it
C21_Witness ==
    /\ call.op = "new"
    /\ SeatCount = MAX_TABLE_PLAYERS
    /\ table.hand_number = 1
    /\ get_pot_size(table) = MAX_TABLE_PLAYERS
    /\ table.players[MAX_TABLE_PLAYERS - 1].total_money = 499

(***************************************************************************)
(* The button and the turn                                                 *)
(***************************************************************************)
\* the seat k places clockwise of seat i
Clockwise(i, k) == (i + k) % SeatCount

\* the number of places from seat i clockwise to seat j, a full lap for i
PlacesTo(i, j) == IF j = i THEN SeatCount ELSE (j - i + SeatCount) % SeatCount

\* the last take_action dealt a hand and the game goes on
DealtOn == Acted /\ ~SameHand /\ AwaitingInput

\* C22: after every deal that leaves the game going, the button is on the
\* first alive seat clockwise of the seat that had it, wrapping at the last
\* seat: an alive seat, and not the seat of the hand before
C22_DealerRotation ==
    DealtOn =>
        /\ is_alive(table.players[table.dealer_button_index])
        /\ table.dealer_button_index # before.dealer_button_index
        /\ \A k \in 1 .. PlacesTo(before.dealer_button_index,
                                  table.dealer_button_index) - 1 :
               ~is_alive(table.players[Clockwise(before.dealer_button_index, k)])

\* the button passed over a dead seat
C22_Witness ==
    /\ DealtOn
    /\ is_alive(table.players[table.dealer_button_index])
    /\ PlacesTo(before.dealer_button_index, table.dealer_button_index) = 2
    /\ ~is_alive(table.players[Clockwise(before.dealer_button_index, 1)])

(***************************************************************************)
(* The action codec                                                        *)
(***************************************************************************)
\* the frame the last parse_hand_action read, and its tag in lower case,
\* "bad" for a frame with no string under "action"
Parsed == call.frame

TagRead ==
    IF ~Parsed.json \/ Parsed.action.type # "string" THEN "bad"
    ELSE CASE Parsed.action.text \in {"fold", "FOLD", "Fold"} -> "fold"
           [] Parsed.action.text \in {"check", "CHECK", "Check"} -> "check"
           [] Parsed.action.text \in {"call", "CALL", "Call"} -> "call"
           [] Parsed.action.text \in {"raise", "RAISE", "Raise"} -> "raise"
           [] OTHER -> "bad"

\* C23: parse_hand_action gives back every action from the frame emitted
\* for it, Raise(n) for every i32 n; it reads the tag in any case; and a
\* raise with no amount or an amount that is no JSON integer, an unknown
\* tag and a frame that is no JSON each give an error, never an action
C23_ActionCodec ==
    call.op = "parse_hand_action" =>
        /\ \A hand_action \in CodecActions :
               Parsed = emit(hand_action) => call.result = ParseOk(hand_action)
        /\ (Parsed.json /\ TagRead = "fold") => call.result = ParseOk(Fold)
        /\ (Parsed.json /\ TagRead = "check") => call.result = ParseOk(Check)
        /\ (Parsed.json /\ TagRead = "call") => call.result = ParseOk(Call)
        /\ (Parsed.json /\ TagRead = "raise" /\ Parsed.amount.type = "integer") =>
               call.result = ParseOk(Raise(Parsed.amount.value))
        /\ (Parsed.json /\ TagRead = "raise" /\ Parsed.amount.type # "integer") =>
               ~call.result.ok
        /\ TagRead = "bad" => ~call.result.ok

\* a raise with its tag in capitals and the smallest i32 was read back
C23_Witness ==
    /\ call.op = "parse_hand_action"
    /\ Parsed = Frame(JsonString("RAISE"), JsonInteger(-I32_MAX - 1))
    /\ call.result = ParseOk(Raise(-I32_MAX - 1))

\* C24: Engine::new reports a startup error exactly when the acceptor
\* collected no connection; otherwise a table is made with one seat per
\* accepted connection, seat k served by the k-th accepted connection, so
\* that the client asked at a turn is the one of the seat whose turn it is
EngineStarted == validate_bot_args(cfg.bots).ok

C24_RosterToTable ==
    EngineStarted =>
        /\ (call.result = "ERROR_CODE_NO_SUBS") <=> (cfg.arrivals = << >>)
        /\ cfg.arrivals # << >> =>
               /\ call.result = "engine"
               /\ table.panic = NoPanic
               /\ Cardinality(Seats(table)) = Len(cfg.arrivals)
               /\ \A k \in Seats(table) : table.connections[k + 1] = cfg.arrivals[k + 1]
               /\ call.op = "play_turn" =>
                      call.client = cfg.arrivals[before.current_player_index + 1]

\* C25: the table of the engine is never asked for more than 23 seats: a
\* bot total of 23 or more is refused before the server starts, and the
\* roster given to Table::new holds at most 23 connections
C25_RosterWithinLimit ==
    /\ ~EngineStarted => call.result = "ERROR_CODE_BAD_INPUT"
    /\ EngineStarted =>
           /\ Len(table.connections) <= MAX_TABLE_PLAYERS
           /\ table.panic # "Too many players for one table!"

\* C26 as the spec words it: a bet of amount >= 0 by an Active player moves
\* min(amount, total_money) from total_money to current_bet, returns that
\* amount, marks the turn and leaves total_money at zero or more; bet and
\* fold on a Folded player are fatal and leave the player as it was
Caller == before.players[0]

Callee == table.players[0]

BetByActive == call.op = "bet" /\ is_active(Caller) /\ call.bet >= 0

OnFolded == call.op \in {"bet", "fold"} /\ ~is_active(Caller)

BetMovesChips ==
    BetByActive =>
        /\ table.panic = NoPanic
        /\ call.amount = Min(call.bet, Caller.total_money)
        /\ Callee.total_money = Caller.total_money - call.amount
        /\ Callee.current_bet = Caller.current_bet + call.amount
        /\ Callee.has_had_turn_this_round
        /\ Callee.total_money >= 0
        /\ is_active(Callee)

C26_BetAsWorded ==
    /\ BetMovesChips
    /\ OnFolded => table.panic # NoPanic /\ Callee = Caller

\* C26: a bet of amount >= 0 by an Active player moves min(amount,
\* total_money) from total_money to current_bet, returns that amount, marks
\* the turn and leaves total_money at zero or more; bet and fold on a Folded
\* player are fatal, move no chips and leave the player Folded, and the turn
\* is marked as taken before the panic is raised
C26_PlayerBet ==
    /\ BetMovesChips
    /\ OnFolded =>
           /\ table.panic # NoPanic
           /\ call.amount = 0
           /\ Callee = [Caller EXCEPT !.has_had_turn_this_round = TRUE]

\* a bet above the stack of an Active player was taken as an all-in
C26_Witness ==
    /\ BetByActive
    /\ call.bet > Caller.total_money
    /\ Caller.total_money > 0
    /\ Callee.total_money = 0
    /\ table.panic = NoPanic

\* C27: get_results lists the players from the greatest down by the order
\* of Player, the player at position k shares the rank of the player before
\* it exactly when the two compare Equal, and has rank k otherwise; so two
\* alive players with different total_money never share a rank
Results == get_results(table)

ListedPlayer(k) == table.players[Results[k].player]

C27_RankedResults ==
    table.panic = NoPanic =>
        /\ Len(Results) = Cardinality(Seats(table))
        /\ Results[1].rank = 1
        /\ \A k \in 2 .. Len(Results) :
               /\ Player_cmp(ListedPlayer(k - 1), ListedPlayer(k)) >= 0
               /\ (Results[k].rank = Results[k - 1].rank)
                      <=> (Player_cmp(ListedPlayer(k - 1), ListedPlayer(k)) = 0)
               /\ Results[k].rank # Results[k - 1].rank => Results[k].rank = k

\* C28: after every deal and after every stage advance the seat asked to
\* act is the first seat clockwise of the dealer button that is Active,
\* alive and not all-in; within a stage the turn passes to the first such
\* seat clockwise of the seat that just acted; and a seat is asked a second
\* time in a stage only when every other such seat has been asked
Eligible(s) ==
    /\ is_active(table.players[s])
    /\ is_alive(table.players[s])
    /\ table.players[s].total_money # 0

\* seat s is the first eligible seat clockwise of seat i
FirstEligibleAfter(i, s) ==
    /\ Eligible(s)
    /\ \A k \in 1 .. PlacesTo(i, s) - 1 : ~Eligible(Clockwise(i, k))

StageAdvanced == Acted /\ SameHand /\ table.table_state # before.table_state

StageKept == Acted /\ SameHand /\ table.table_state = before.table_state

C28_TurnOrder ==
    AwaitingInput =>
        /\ (call.op = "new" \/ DealtOn \/ StageAdvanced) =>
               FirstEligibleAfter(table.dealer_button_index,
                                  table.current_player_index)
        /\ StageKept =>
               FirstEligibleAfter(before.current_player_index,
                                  table.current_player_index)
        /\ get_current_player(table).has_had_turn_this_round =>
               \A s \in Seats(table) :
                   Eligible(s) => table.players[s].has_had_turn_this_round

\* the last take_action left at least two Active players, all of them all-in
AllInAfterAction ==
    /\ Acted
    /\ AfterAction.panic = NoPanic
    /\ get_active_player_count(AfterAction) >= 2
    /\ \A s \in ActiveSeats(AfterAction) : AfterAction.players[s].total_money = 0

\* what the hand logged after the entry of the acting seat
AfterEntry == SubSeq(HandLog, Len(before.round_actions) + 2, Len(HandLog))

\* C29: an action that leaves at least two Active players, every one of
\* them all-in, runs the hand out inside the same take_action: every stage
\* still open is closed with one AdvanceTo entry each, in order, the hands
\* of the Active players are compared, and the next thing any seat is asked
\* for belongs to the next hand
C29_AllInRunOut ==
    AllInAfterAction =>
        /\ ShowedDown
        /\ ShowdownSeats(before, call.hand_action) = ActiveSeats(AfterAction)
        /\ AtShowdown.table_state = "River"
        /\ table.panic = NoPanic =>
               /\ table.hand_number = before.hand_number + 1
               /\ Len(HandLog) > Len(before.round_actions) + 1
               /\ LET open == 3 - StageRank(before.table_state)
                  IN /\ Len(AfterEntry) = open + 1
                     /\ SubSeq(AfterEntry, 1, open)
                            = SubSeq(StagePath, StageRank(before.table_state) + 1, 3)
                     /\ AfterEntry[open + 1].type = "EvaluateHand"

\* a raise before the flop put the last of three seats all-in, and the hand
\* ran through Flop, Turn and River to the showdown in that take_action
C29_Witness ==
    /\ AllInAfterAction
    /\ call.hand_action = Raise(1)
    /\ before.table_state = "PreFlop"
    /\ get_active_player_count(AfterAction) = LogSeats
    /\ table.panic = NoPanic
    /\ table.hand_number = before.hand_number + 1
    /\ Advances(HandLog) = StagePath
    /\ PlayerEntries(HandLog) = LogSeats

\* the classes of the showdown of the last take_action, best first
ShowdownClasses == get_hand_result(AtShowdown, call.ranking)

\* the table of that showdown when the classes 1 .. c have been paid
RECURSIVE PaidThrough(_)
PaidThrough(c) ==
    IF c = 0 THEN AtShowdown
    ELSE LET list == SortedActiveByBet(PaidThrough(c - 1), ShowdownClasses[c])
         IN PayIncrements(PaidThrough(c - 1), list,
                          get_bet_increases_amount(PaidThrough(c - 1), list), 0)

\* the bets of the Active members of the classes 1 .. c
WinnerBets(c) ==
    UNION {{AtShowdown.players[ShowdownClasses[d][k]].current_bet :
               k \in 1 .. Len(ShowdownClasses[d])} : d \in 1 .. c}

\* C30: at a showdown the classes 1 .. c, best first, together take from no
\* seat more chips than the largest bet of a member of those classes
C30_SidePotCap ==
    ShowedDown =>
        \A c \in 1 .. Cardinality({call.ranking[s] : s \in ActiveSeats(AtShowdown)}) :
            \A j \in Seats(AtShowdown) :
                AtShowdown.player_bets[j] - PaidThrough(c).player_bets[j]
                    <= Max(WinnerBets(c))

\* what the action of the acting seat added to its bet
PaidByAction == AfterAction.player_bets[ActingSeat] - before.player_bets[ActingSeat]

\* raise_amount + difference is within the range of i32
SumFits(raise_amount, difference) ==
    /\ difference > 0 => raise_amount <= I32_MAX - difference
    /\ difference < 0 => raise_amount >= (-I32_MAX - 1) - difference

\* C31: for every Raise(r) the codec delivers, r + diff does not overflow
\* and the seat pays an amount in [0, min(total_money, pot + diff)]; no
\* action of a seat increases its own total_money, and no current_bet and
\* no entry of player_bets is ever negative
C31_RaiseCannotExtract ==
    /\ (Acted /\ call.hand_action.kind = "Raise") =>
           /\ SumFits(call.hand_action.amount, Difference)
           /\ PaidByAction >= 0
           /\ PaidByAction <= get_current_player(before).total_money
           /\ PaidByAction <= get_pot_size(before) + Difference
    /\ Acted =>
           AfterAction.players[ActingSeat].total_money
               <= get_current_player(before).total_money
    /\ \A s \in Seats(table) :
           table.player_bets[s] >= 0 /\ table.players[s].current_bet >= 0

\* the last operation dealt a hand: Table::new, or a take_action that ended
\* the hand before
Dealt == (call.op = "new" \/ (Acted /\ ~SameHand)) /\ table.panic = NoPanic

\* the ante that deal charged: the ante in force when the deal began
AnteCharged == IF call.op = "new" THEN 1 ELSE before.ante

\* the stack seat s brought to that deal: what it holds plus what it paid
StackAtDeal(s) == table.players[s].total_money + table.player_bets[s]

\* C32: a deal marks dead exactly the seats that were alive with a stack
\* below the ante charged for the hand, with the new hand_number as their
\* death_hand_number; every other alive seat is dealt in and pays the whole
\* ante, so every Active player starts the hand with current_bet = ante
C32_DeathRuleFullAnte ==
    Dealt =>
        \A s \in Seats(table) :
            /\ (call.op = "new" \/ is_alive(before.players[s])) =>
                   /\ ~is_alive(table.players[s]) <=> StackAtDeal(s) < AnteCharged
                   /\ ~is_alive(table.players[s]) =>
                          table.players[s].death_hand_number = table.hand_number
            /\ is_active(table.players[s]) <=> is_alive(table.players[s])
            /\ is_active(table.players[s]) =>
                   /\ table.players[s].current_bet = AnteCharged
                   /\ table.player_bets[s] = AnteCharged
                   /\ table.players[s].total_money >= 0
            /\ ~is_active(table.players[s]) => table.player_bets[s] = 0

\* a deal with ante 2 marked a seat with one chip dead and took the whole
\* ante from a seat that went on
C32_Witness ==
    /\ Dealt
    /\ Acted
    /\ AnteCharged = 2
    /\ \E s \in AliveSeats(before) :
           /\ table.players[s].death_hand_number = table.hand_number
           /\ table.players[s].total_money = 1
    /\ \E s \in AliveSeats(table) : table.players[s].current_bet = 2

\* C33: no deal marks every remaining player dead: in every reachable state
\* at least one player is alive
C33_OneSurvivor == Cardinality(AliveSeats(table)) >= 1

\* C34: wherever the engine awaits input, the current_bet of every Active
\* player is its entry of player_bets, and current_highest_bet of the view
\* (get_largest_active_bet) is the largest current_bet of an Active player
C34_ContributionBookkeeping ==
    AwaitingInput =>
        /\ \A s \in ActiveSeats(table) :
               table.players[s].current_bet = table.player_bets[s]
        /\ get_largest_active_bet(table)
               = Max({table.players[s].current_bet : s \in ActiveSeats(table)})

\* C35: wherever the engine awaits input, round_actions starts with the
\* DealCards entry of the hand being played: it carries the current
\* hand_number and the dealer_button_index of the table, which is the value
\* the view reports
C35_DealLogEntry ==
    AwaitingInput =>
        /\ Len(table.round_actions) >= 1
        /\ table.round_actions[1]
               = DealCards(table.hand_number, table.dealer_button_index)

\* the log is that of one whole hand numbered h: a DealCards entry of hand
\* h first, an EvaluateHand entry last, and neither kind in between
WholeHandLog(log, h) ==
    /\ Len(log) >= 2
    /\ log[1].type = "DealCards"
    /\ log[1].round_number = h
    /\ log[Len(log)].type = "EvaluateHand"
    /\ \A k \in 2 .. Len(log) - 1 : log[k].type \notin {"DealCards", "EvaluateHand"}

IsPrefix(short, long) ==
    Len(short) <= Len(long) /\ SubSeq(long, 1, Len(short)) = short

\* C36: previous_round_actions is empty during hand 1; in every later hand
\* it is the whole log of the hand before, from its DealCards entry to its
\* EvaluateHand entry, with everything that hand had logged; and it does
\* not change while a hand is in progress
C36_PreviousHandLog ==
    table.panic = NoPanic =>
        /\ table.hand_number = 1 => table.previous_round_actions = << >>
        /\ table.hand_number > 1 =>
               WholeHandLog(table.previous_round_actions, table.hand_number - 1)
        /\ (Acted /\ ~SameHand) =>
               /\ IsPrefix(before.round_actions, table.previous_round_actions)
               /\ table.previous_round_actions[Len(before.round_actions) + 1].type
                      = "TakePlayerAction"
        /\ SameHand => table.previous_round_actions = before.previous_round_actions

\* an action of hand 2 that did not end the hand left the log of hand 1,
\* which three seats had played to the showdown, as it was
C36_Witness ==
    /\ Acted
    /\ SameHand
    /\ table.panic = NoPanic
    /\ table.hand_number = 2
    /\ WholeHandLog(table.previous_round_actions, 1)
    /\ Advances(table.previous_round_actions) = StagePath
    /\ Len(table.round_actions) = 2

\* the action the log records for the last call: a Check into a bet is a
\* Fold, a raise is a raise of what the seat paid
EffectiveAction ==
    CASE call.hand_action.kind = "Check" -> IF Difference = 0 THEN Check ELSE Fold
      [] call.hand_action.kind = "Raise" -> Raise(PaidByAction)
      [] OTHER -> call.hand_action

\* C37: a take_action on a table that is not over appends one player-action
\* entry, naming the acting seat and the effective action, to the log of
\* the hand; whatever else it appends (stage advances, the evaluation of
\* the hand) comes after that entry, and what the hand had logged before
\* stays as it was, in order
C37_ActionLogOrder ==
    (Acted /\ table.panic = NoPanic) =>
        /\ IsPrefix(before.round_actions, HandLog)
        /\ Len(HandLog) > Len(before.round_actions)
        /\ ActionEntry = TakePlayerAction(ActingSeat, EffectiveAction)
        /\ \A k \in 1 .. Len(AfterEntry) :
               \/ IsAdvance(AfterEntry[k])
               \/ AfterEntry[k].type = "EvaluateHand" /\ k = Len(AfterEntry)
        /\ SameHand <=> (AfterEntry = << >> \/ IsAdvance(AfterEntry[Len(AfterEntry)]))

\* a raise of 1 by a seat that had 1 to call was logged as a raise of the 2
\* chips it paid, and the stage advance it caused was logged after it
C37_Witness ==
    /\ Acted
    /\ table.panic = NoPanic
    /\ call.hand_action = Raise(1)
    /\ ActionEntry = TakePlayerAction(ActingSeat, Raise(2))
    /\ Len(AfterEntry) >= 1
    /\ IsAdvance(AfterEntry[1])

\* what is left of a hand: the chips the Active seats still hold, the
\* Active seats, the stages still to close, and the Active seats with chips
\* that have not had their turn in this stage
ChipsToBet(t) == Sum([s \in Seats(t) |->
                         IF is_active(t.players[s]) THEN t.players[s].total_money ELSE 0])

TurnsOwed(t) ==
    Cardinality({s \in ActiveSeats(t) : ~t.players[s].has_had_turn_this_round})

HandMeasure(t) ==
    <<ChipsToBet(t), get_active_player_count(t), 3 - StageRank(t.table_state),
      TurnsOwed(t)>>

\* m comes before n in the lexicographic order
LexLess(m, n) ==
    \E k \in 1 .. Len(m) :
        /\ m[k] < n[k]
        /\ \A j \in 1 .. k - 1 : m[j] = n[j]

\* C38: with raise amounts >= 0 every hand ends after finitely many calls
\* of take_action: an action that does not end the hand folds a seat, moves
\* chips of an Active seat into the pot, closes a stage or uses up a turn of
\* the stage, so what is left of the hand, which is never negative, becomes
\* strictly smaller
C38_EveryHandEnds ==
    /\ table.panic = NoPanic =>
           \A k \in 1 .. 4 : HandMeasure(table)[k] >= 0
    /\ (Acted /\ SameHand /\ table.panic = NoPanic) =>
           LexLess(HandMeasure(table), HandMeasure(before))

\* a seat that had already had its turn in the stage was asked again after
\* a raise, paid, and the hand went on
C38_Witness ==
    /\ Acted
    /\ SameHand
    /\ table.panic = NoPanic
    /\ get_current_player(before).has_had_turn_this_round
    /\ PaidByAction > 0
    /\ AwaitingInput

\* C39: the action applied on the turn of a seat was sent by that seat in
\* answer to the state message of that same turn: a frame that the read
\* takes from the stream answers the state message that was just sent, never
\* one of an earlier turn that was resolved as a Fold at the deadline
C39_RequestReplyPairing ==
    (call.op = "play_turn" /\ call.exchange.read = "message") =>
        call.reply_to = call.request

\* C40: whenever the game is over the pot is empty: the last seat alive is
\* not charged an ante for a hand that is never played, so the money of the
\* seats in the final results adds up to the start money of all the seats
C40_EmptyPotAtGameOver ==
    (is_game_over(table) /\ table.panic = NoPanic) =>
        /\ get_pot_size(table) = 0
        /\ TotalMoney(table) = get_player_count(table) * cfg.start_money

====
